---- MODULE Spec2Model ----
(***************************************************************************)
(* frizbee: SIMD Smith-Waterman fuzzy matcher.                             *)
(*                                                                         *)
(* Bytes are naturals 0..255, strings are sequences of bytes, a SIMD       *)
(* vector of sixteen lanes is a tuple whose element j + 1 is lane j (lane 0 *)
(* is the lowest address).  A mask vector is such a tuple of BOOLEAN.      *)
(***************************************************************************)
EXTENDS Integers, Sequences, FiniteSets, TLC

(***************************************************************************)
(* Bounds of the model                                                     *)
(***************************************************************************)
MaxNeedleLen == 3
MaxHayLen == 4
MaxHaystacks == 3
MaxThreads == 2
MaxTypos == 1

(***************************************************************************)
(* Program constants                                                       *)
(***************************************************************************)
LANES == 16
MAX_HAYSTACK_LEN == 512
U16 == 65536

(***************************************************************************)
(* The state.  cur_needle, cur_config and cur_haystacks are the arguments  *)
(* of the call in progress or last made, cur_result what it returned (or   *)
(* that it panicked), op the operation and taken the case it took.         *)
(* prev_needle, matched_indices and prev_haystack_count are the fields of  *)
(* the IncrementalMatcher; list_history records how the lists it was given  *)
(* differ from the first one.          The remaining variables are the       *)
(* shared counter and the workers of a parallel call: pc[t] is where       *)
(* worker t stands, local_matches[t] and local_indices[t] its vectors,     *)
(* new_tail_matches the records of the grown tail.  overflow_checks tells  *)
(* whether the build panics on integer overflow (debug) or wraps (release).*)
(* matrices is the memory of the score matrix and the match-mask matrix of *)
(* the engine: its allocated length, its row stride and the elements that  *)
(* hold values of the haystacks scored so far.                             *)
(***************************************************************************)
VARIABLES cur_config, cur_needle, cur_haystacks, cur_result, op, taken,
          prev_needle, matched_indices, prev_haystack_count, list_history,
          par_mode, next_chunk, pc, local_matches, local_indices, new_tail_matches,
          overflow_checks, matrices

vars == <<cur_config, cur_needle, cur_haystacks, cur_result, op, taken,
          prev_needle, matched_indices, prev_haystack_count, list_history,
          par_mode, next_chunk, pc, local_matches, local_indices, new_tail_matches,
          overflow_checks, matrices>>
call_vars == <<cur_config, cur_needle, cur_haystacks>>
inc_vars == <<prev_needle, matched_indices, prev_haystack_count, list_history>>
par_vars == <<par_mode, next_chunk, pc, local_matches, local_indices, new_tail_matches>>

Lanes == 0..(LANES - 1)

Max2(a, b) == IF a >= b THEN a ELSE b
Min2(a, b) == IF a <= b THEN a ELSE b
DivCeil(a, b) == (a + b - 1) \div b

(***************************************************************************)
(* src/simd: the vector vocabulary (AVX2 variant)                          *)
(***************************************************************************)
add_u16(a, b) == (a + b) % U16
subs_u16(a, b) == IF a >= b THEN a - b ELSE 0

\* the vector whose lane j holds f[j]
Vec(f) ==
  <<f[0], f[1], f[2], f[3], f[4], f[5], f[6], f[7],
    f[8], f[9], f[10], f[11], f[12], f[13], f[14], f[15]>>

ZeroVec == Vec([j \in Lanes |-> 0])
ZeroMask == Vec([j \in Lanes |-> FALSE])

\* self shifted right by n lanes, the low n lanes filled with the top n lanes of other
shift_right_padded(self, other, n) ==
  Vec([j \in Lanes |-> IF j >= n THEN self[j - n + 1] ELSE other[LANES - n + j + 1]])

\* sixteen bytes of data from start, zero where the data has ended
load_partial(data, start, len) ==
  Vec([j \in Lanes |-> IF start + j < len THEN data[start + j + 1] ELSE 0])

\* lane of the first element equal to search, LANES when there is none
idx_u16(v, search) ==
  IF \E j \in Lanes : v[j + 1] = search
  THEN CHOOSE j \in Lanes : v[j + 1] = search /\ \A k \in 0..(j - 1) : v[k + 1] # search
  ELSE LANES

RECURSIVE smax_from(_, _)
smax_from(v, j) == IF j = LANES THEN 0 ELSE Max2(v[j + 1], smax_from(v, j + 1))
smax_u16(v) == smax_from(v, 0)

(***************************************************************************)
(* ASCII classes                                                           *)
(***************************************************************************)
is_upper(b) == b > 64 /\ b < 91
is_lower(b) == b > 96 /\ b < 123
is_digit(b) == b > 47 /\ b < 58
char_is_delimiter(b) == ~(is_upper(b) \/ is_lower(b) \/ is_digit(b) \/ b > 127)

\* the other case of a needle byte, as case_needle pairs it
flip_case(c) ==
  IF is_lower(c) THEN c - 32 ELSE IF is_upper(c) THEN c + 32 ELSE c

(***************************************************************************)
(* Scoring (src/lib.rs): the scoring a caller passes in its Config         *)
(***************************************************************************)
CallerScoring ==
  [match_score |-> 12, mismatch_penalty |-> 6, gap_open_penalty |-> 5,
   gap_extend_penalty |-> 1, prefix_bonus |-> 12, capitalization_bonus |-> 4,
   matching_case_bonus |-> 4, exact_match_bonus |-> 8, delimiter_bonus |-> 4]

(***************************************************************************)
(* src/smith_waterman/simd/gaps.rs                                         *)
(***************************************************************************)
\* one shift-and-decay step of distance d
gap_step(row, adjacent_row, match_mask, adjacent_match_mask, open_minus_extend, extend, d) ==
  LET shifted_row == shift_right_padded(row, adjacent_row, d)
      shifted_match_mask == shift_right_padded(match_mask, adjacent_match_mask, d)
  IN Vec([j \in Lanes |->
        LET gap_penalty == add_u16((extend * d) % U16,
                                   IF shifted_match_mask[j + 1] THEN open_minus_extend ELSE 0)
        IN Max2(row[j + 1], subs_u16(shifted_row[j + 1], gap_penalty))])

propagate_horizontal_gaps(row, adjacent_row, match_mask, adjacent_match_mask, gap_open_penalty, gap_extend_penalty) ==
  LET ome == (gap_open_penalty - gap_extend_penalty) % U16
      r1 == gap_step(row, adjacent_row, match_mask, adjacent_match_mask, ome, gap_extend_penalty, 1)
      r2 == gap_step(r1, adjacent_row, match_mask, adjacent_match_mask, ome, gap_extend_penalty, 2)
      r4 == gap_step(r2, adjacent_row, match_mask, adjacent_match_mask, ome, gap_extend_penalty, 4)
  IN gap_step(r4, adjacent_row, match_mask, adjacent_match_mask, ome, gap_extend_penalty, 8)

(***************************************************************************)
(* src/smith_waterman/simd/algo.rs: score_haystack                         *)
(***************************************************************************)
\* chunk k (from 0) of the haystack, as the column loop loads it
haystack_chunk(h, k) == load_partial(h, k * LANES, Len(h))

is_lower_mask(h, k) ==
  LET chunk == haystack_chunk(h, k) IN Vec([j \in Lanes |-> is_lower(chunk[j + 1])])
char_is_delimiter_mask(h, k) ==
  LET chunk == haystack_chunk(h, k) IN Vec([j \in Lanes |-> char_is_delimiter(chunk[j + 1])])

\* delimiter, capitalization and prefix bonuses plus the match score, per lane
match_and_masked_bonuses(h, k, scoring) ==
  LET chunk == haystack_chunk(h, k)
      prev_chunk_is_lower_mask == IF k = 0 THEN ZeroMask ELSE is_lower_mask(h, k - 1)
      prev_chunk_char_is_delimiter_mask ==
        IF k = 0 THEN ZeroMask ELSE char_is_delimiter_mask(h, k - 1)
      prev_is_lower == shift_right_padded(is_lower_mask(h, k), prev_chunk_is_lower_mask, 1)
      prev_char_is_delimiter_mask ==
        shift_right_padded(char_is_delimiter_mask(h, k), prev_chunk_char_is_delimiter_mask, 1)
      match_score == add_u16(scoring.match_score, scoring.mismatch_penalty)
  IN Vec([j \in Lanes |->
        LET capitalization_bonus_masked ==
              IF is_upper(chunk[j + 1]) /\ prev_is_lower[j + 1]
              THEN scoring.capitalization_bonus ELSE 0
            delimiter_bonus_masked ==
              IF prev_char_is_delimiter_mask[j + 1] /\ ~char_is_delimiter(chunk[j + 1])
              THEN scoring.delimiter_bonus ELSE 0
            prefix_bonus_masked == IF k = 0 /\ j = 0 THEN scoring.prefix_bonus ELSE 0
        IN add_u16(add_u16(add_u16(delimiter_bonus_masked, capitalization_bonus_masked),
                           prefix_bonus_masked), match_score)])

ZeroRow == [scores |-> ZeroVec, mask |-> ZeroMask]

\* the scores of one needle row of one chunk before the horizontal gaps: the
\* maximum of the diagonal and the up move.  prev is the row above in this
\* chunk, left_prev the row row_idx-1 of the chunk to the left.
diag_max_up(needle_char, chunk, bonuses, prev, left_prev, scoring) ==
  LET diag == shift_right_padded(prev.scores, left_prev.scores, 1)
      diag_scores == Vec([j \in Lanes |->
          add_u16(subs_u16(add_u16(diag[j + 1],
                                   IF chunk[j + 1] = needle_char \/ chunk[j + 1] = flip_case(needle_char)
                                   THEN bonuses[j + 1] ELSE 0),
                           scoring.mismatch_penalty),
                  IF chunk[j + 1] = needle_char THEN scoring.matching_case_bonus ELSE 0)])
      up_scores == Vec([j \in Lanes |->
          subs_u16(subs_u16(prev.scores[j + 1], scoring.gap_extend_penalty),
                   IF prev.mask[j + 1]
                   THEN (scoring.gap_open_penalty - scoring.gap_extend_penalty) % U16 ELSE 0)])
  IN Vec([j \in Lanes |-> Max2(diag_scores[j + 1], up_scores[j + 1])])

\* one needle row of one chunk: the inner loop body.  left is the row row_idx
\* of the chunk to the left.
score_row(needle_char, chunk, bonuses, prev, left_prev, left, scoring) ==
  LET match_mask ==
        Vec([j \in Lanes |-> chunk[j + 1] = needle_char \/ chunk[j + 1] = flip_case(needle_char)])
  IN [scores |-> propagate_horizontal_gaps(
                   diag_max_up(needle_char, chunk, bonuses, prev, left_prev, scoring),
                   left.scores, match_mask, left.mask,
                   scoring.gap_open_penalty, scoring.gap_extend_penalty),
      mask |-> match_mask]

\* the row after the rows acc already done in this chunk
next_row(needle, chunk, bonuses, left, scoring, acc) ==
  LET row_idx == Len(acc) + 1 IN
  score_row(needle[row_idx], chunk, bonuses,
            IF row_idx = 1 THEN ZeroRow ELSE acc[row_idx - 1],
            IF row_idx = 1 THEN ZeroRow ELSE left[row_idx - 1],
            left[row_idx], scoring)

\* the rows 1..Len(needle) of one chunk, top to bottom; acc holds the rows done
RECURSIVE chunk_rows(_, _, _, _, _, _)
chunk_rows(needle, chunk, bonuses, left, scoring, acc) ==
  IF Len(acc) >= Len(needle) THEN acc
  ELSE chunk_rows(needle, chunk, bonuses, left, scoring,
                  Append(acc, next_row(needle, chunk, bonuses, left, scoring, acc)))

\* the chunk after the chunks acc already done
next_chunk_rows(needle, h, scoring, acc) ==
  LET k == Len(acc) IN
  chunk_rows(needle, haystack_chunk(h, k), match_and_masked_bonuses(h, k, scoring),
             IF k = 0 THEN [i \in 1..Len(needle) |-> ZeroRow] ELSE acc[k],
             scoring, <<>>)

\* the column loop: chunks left to right; acc holds the chunks done.
\* The result m is indexed m[col_idx][row_idx], col_idx from 1 (chunk 0 of the
\* stored matrix and row 0 are never written and stay zero).
RECURSIVE score_chunks(_, _, _, _)
score_chunks(needle, h, scoring, acc) ==
  IF Len(acc) >= DivCeil(Len(h), LANES) THEN acc
  ELSE score_chunks(needle, h, scoring, Append(acc, next_chunk_rows(needle, h, scoring, acc)))

score_matrix(needle, h, scoring) == score_chunks(needle, h, scoring, <<>>)

\* the maximum of the last row over all chunks
RECURSIVE max_scores(_, _, _)
max_scores(m, needle_len, col_idx) ==
  IF col_idx > Len(m) THEN 0
  ELSE Max2(smax_u16(m[col_idx][needle_len].scores), max_scores(m, needle_len, col_idx + 1))

score_of_matrix(m, needle_len) == max_scores(m, needle_len, 1)

score_haystack(needle, h, scoring) ==
  score_of_matrix(score_matrix(needle, h, scoring), Len(needle))

(***************************************************************************)
(* Option<T> is a sequence of length 0 (None) or 1 (Some).                 *)
(***************************************************************************)
None == <<>>
Some(x) == <<x>>
IsSome(o) == Len(o) = 1

(***************************************************************************)
(* src/smith_waterman/simd/alignment_iter.rs                               *)
(***************************************************************************)
\* the stored score of cell (row, col); col counts lanes from chunk 0 of the
\* stored matrix, so haystack byte p is column p + LANES
get_score(m, row, col) ==
  IF row = 0 \/ col \div LANES = 0 THEN 0 ELSE m[col \div LANES][row].scores[(col % LANES) + 1]

get_is_match(m, row, col) ==
  IF row = 0 \/ col \div LANES = 0 THEN FALSE ELSE m[col \div LANES][row].mask[(col % LANES) + 1]

\* the column of the first last-row cell that holds score; None when no chunk
\* holds it (the source panics there)
RECURSIVE get_col_idx(_, _, _, _)
get_col_idx(m, needle_len, score, chunk_idx) ==
  IF chunk_idx > Len(m) THEN None
  ELSE IF idx_u16(m[chunk_idx][needle_len].scores, score) # LANES
  THEN Some(chunk_idx * LANES + idx_u16(m[chunk_idx][needle_len].scores, score))
  ELSE get_col_idx(m, needle_len, score, chunk_idx + 1)

\* AlignmentPathIter::next.  it is the iterator before the call; the result is
\* the iterator after it and the item returned: kind "None" is the end of the
\* iteration, kind "Exceeded" the item that says max_typos was exceeded, the
\* other kinds are alignments.
AlignmentPathIter_next(m, skipped_chunks, max_typos, it) ==
  LET end == [it |-> it, item |-> [kind |-> "None"]]
      exceeded == [it |-> [it EXCEPT !.finished = TRUE], item |-> [kind |-> "Exceeded"]]
      current_pos == <<it.row_idx - 1, it.col_idx - LANES + skipped_chunks * LANES>>
      diag == get_score(m, it.row_idx - 1, it.col_idx - 1)
      left == get_score(m, it.row_idx, it.col_idx - 1)
      up == get_score(m, it.row_idx - 1, it.col_idx)
      go(kind, row, col, typos, score) ==
        [it |-> [it EXCEPT !.row_idx = row, !.col_idx = col, !.typo_count = typos,
                           !.score = score],
         item |-> [kind |-> kind, pos |-> current_pos]]
  IN
  IF it.row_idx = 0 \/ it.finished THEN end
  ELSE IF IsSome(max_typos) /\ it.typo_count > max_typos[1] THEN exceeded
  ELSE IF it.col_idx < LANES \/ it.score = 0
       THEN IF IsSome(max_typos) /\ (it.typo_count + it.row_idx) % U16 > max_typos[1]
            THEN exceeded ELSE end
  ELSE IF get_is_match(m, it.row_idx, it.col_idx)
       THEN go("Match", it.row_idx - 1, it.col_idx - 1, it.typo_count, diag)
  ELSE IF diag >= left /\ diag >= up
       THEN IF diag >= it.score
            THEN go("Mismatch", it.row_idx - 1, it.col_idx - 1, (it.typo_count + 1) % U16, diag)
            ELSE go("Match", it.row_idx - 1, it.col_idx - 1, it.typo_count, diag)
  ELSE IF left >= up
       THEN go("Left", it.row_idx, it.col_idx - 1, it.typo_count, left)
  ELSE go("Up", it.row_idx - 1, it.col_idx, (it.typo_count + 1) % U16, up)

\* the iteration from the call whose outcome is step, up to its end or to the
\* first "Exceeded" item; acc holds the alignments yielded so far
RECURSIVE alignment_path_from(_, _, _, _, _)
alignment_path_from(m, skipped_chunks, max_typos, step, acc) ==
  IF step.item.kind = "None"
  THEN [panic |-> FALSE, exceeded |-> FALSE, steps |-> acc, it |-> step.it]
  ELSE IF step.item.kind = "Exceeded"
  THEN [panic |-> FALSE, exceeded |-> TRUE, steps |-> acc, it |-> step.it]
  ELSE alignment_path_from(m, skipped_chunks, max_typos,
                           AlignmentPathIter_next(m, skipped_chunks, max_typos, step.it),
                           Append(acc, step.item))

AlignmentPathIter_new(col_idx, needle_len, score) ==
  [row_idx |-> needle_len, col_idx |-> col_idx, typo_count |-> 0, score |-> score,
   finished |-> FALSE]

\* AlignmentPathIter::new followed by the whole iteration
iter_alignment_path(m, needle_len, skipped_chunks, score, max_typos) ==
  LET col == get_col_idx(m, needle_len, score, 1) IN
  IF ~IsSome(col)
  THEN [panic |-> TRUE, exceeded |-> FALSE, steps |-> <<>>,
        it |-> AlignmentPathIter_new(0, needle_len, score)]
  ELSE alignment_path_from(m, skipped_chunks, max_typos,
         AlignmentPathIter_next(m, skipped_chunks, max_typos,
                                AlignmentPathIter_new(col[1], needle_len, score)),
         <<>>)

has_alignment_path(m, needle_len, score, max_typos) ==
  iter_alignment_path(m, needle_len, 0, score, Some(max_typos))

(***************************************************************************)
(* src/smith_waterman/simd/algo.rs: match_haystack, match_haystack_indices *)
(* (haystacks of at most MAX_HAYSTACK_LEN bytes)                           *)
(***************************************************************************)
\* [panic, out]: out is None or Some(score)
match_haystack(needle, h, max_typos, scoring) ==
  LET checked(score, path) ==
        IF path.panic THEN [panic |-> TRUE, out |-> None]
        ELSE IF path.exceeded THEN [panic |-> FALSE, out |-> None]
        ELSE [panic |-> FALSE, out |-> Some(score)]
      scored(m, score) ==
        IF ~IsSome(max_typos) THEN [panic |-> FALSE, out |-> Some(score)]
        ELSE checked(score, has_alignment_path(m, Len(needle), score, max_typos[1]))
      with_matrix(m) == scored(m, score_of_matrix(m, Len(needle)))
  IN with_matrix(score_matrix(needle, h, scoring))

\* a collector that takes the column of every step of the path, gaps included
RECURSIVE collect_every_step(_, _, _, _)
collect_every_step(steps, k, prev_haystack_idx, indices) ==
  IF k > Len(steps) THEN indices
  ELSE collect_every_step(steps, k + 1, steps[k].pos[2], Append(indices, steps[k].pos[2]))

\* the haystack columns of the Match steps, in the order the path yields them
RECURSIVE collect_indices(_, _, _, _)
collect_indices(steps, k, prev_haystack_idx, indices) ==
  IF k > Len(steps) THEN indices
  ELSE IF steps[k].kind = "Match" /\ prev_haystack_idx # steps[k].pos[2]
       THEN collect_indices(steps, k + 1, steps[k].pos[2], Append(indices, steps[k].pos[2]))
       ELSE collect_indices(steps, k + 1, prev_haystack_idx, indices)

\* [panic, out]: out is None or Some([score, indices])
match_haystack_indices(needle, h, skipped_chunks, max_typos, scoring) ==
  LET collected(score, path) ==
        IF path.panic THEN [panic |-> TRUE, out |-> None]
        ELSE IF path.exceeded THEN [panic |-> FALSE, out |-> None]
        ELSE [panic |-> FALSE,
              out |-> Some([score |-> score,
                            indices |-> collect_indices(path.steps, 1, -1, <<>>)])]
      scored(m, score) ==
        collected(score, iter_alignment_path(m, Len(needle), skipped_chunks, score, max_typos))
      with_matrix(m) == scored(m, score_of_matrix(m, Len(needle)))
  IN with_matrix(score_matrix(needle, h, scoring))

(***************************************************************************)
(* src/prefilter: the needle is compared case-insensitively, one 16-byte   *)
(* chunk of the haystack at a time.  A chunk is modelled as the set of     *)
(* bytes it holds.                                                         *)
(***************************************************************************)
Bytes(h, from, to) == {h[k] : k \in from..to}

overlapping_load(h, start, len) ==
  IF len = LANES \div 2 THEN Bytes(h, 1, len) \cup {0}
  ELSE IF len < LANES THEN Bytes(h, 1, LANES \div 2) \cup Bytes(h, len - (LANES \div 2) + 1, len)
  ELSE IF len = LANES THEN Bytes(h, 1, LANES)
  ELSE Bytes(h, Min2(start, len - LANES) + 1, Min2(start, len - LANES) + LANES)

chunk_has(chunk, c) == c \in chunk \/ flip_case(c) \in chunk

\* the chunk loop of match_haystack and match_haystack_typos, from chunk
\* offset start with the needle iterator at its ni-th byte
RECURSIVE scan_chunks(_, _, _, _, _, _)
scan_chunks(needle, h, start, ni, skipped_chunks, can_skip_chunks) ==
  IF start >= Len(h)
  THEN [found |-> FALSE, ni |-> ni, skipped_chunks |-> skipped_chunks]
  ELSE IF ~chunk_has(overlapping_load(h, start, Len(h)), needle[ni])
  THEN scan_chunks(needle, h, start + LANES, ni, skipped_chunks, can_skip_chunks)
  ELSE IF ni < Len(needle)
  THEN scan_chunks(needle, h, start, ni + 1,
                   IF can_skip_chunks THEN start \div LANES ELSE skipped_chunks, FALSE)
  ELSE [found |-> TRUE, ni |-> ni, skipped_chunks |-> skipped_chunks]

\* the scalar fallback for haystacks of 1..7 bytes: every needle byte occurs
\* somewhere in the haystack, in either case
scalar_match_haystack(needle, h) ==
  \A i \in 1..Len(needle) : chunk_has(Bytes(h, 1, Len(h)), needle[i])

\* at most max_typos needle bytes occur nowhere in the haystack
scalar_match_haystack_typos(needle, h, max_typos) ==
  Cardinality({i \in 1..Len(needle) : ~chunk_has(Bytes(h, 1, Len(h)), needle[i])}) <= max_typos

prefilter_match_haystack(needle, h) ==
  IF Len(h) = 0 THEN [matched |-> TRUE, skipped_chunks |-> 0]
  ELSE IF Len(h) < LANES \div 2
  THEN [matched |-> scalar_match_haystack(needle, h), skipped_chunks |-> 0]
  ELSE LET r == scan_chunks(needle, h, 0, 1, 0, TRUE)
       IN [matched |-> r.found, skipped_chunks |-> r.skipped_chunks]

\* the outer loop of match_haystack_typos; r is the outcome of this round's
\* chunk loop
RECURSIVE typos_loop(_, _, _, _, _)
typos_loop(needle, h, r, typos, max_typos) ==
  IF typos > max_typos THEN [matched |-> FALSE, skipped_chunks |-> 0]
  ELSE IF r.found THEN [matched |-> TRUE, skipped_chunks |-> r.skipped_chunks]
  ELSE IF typos + 1 > max_typos THEN [matched |-> FALSE, skipped_chunks |-> 0]
  ELSE IF r.ni < Len(needle)
  THEN typos_loop(needle, h, scan_chunks(needle, h, 0, r.ni + 1, 0, TRUE), typos + 1, max_typos)
  ELSE [matched |-> TRUE, skipped_chunks |-> r.skipped_chunks]

prefilter_match_haystack_typos(needle, h, max_typos) ==
  IF Len(h) = 0 THEN [matched |-> TRUE, skipped_chunks |-> 0]
  ELSE IF Len(h) < LANES \div 2
  THEN [matched |-> scalar_match_haystack_typos(needle, h, max_typos), skipped_chunks |-> 0]
  ELSE typos_loop(needle, h, scan_chunks(needle, h, 0, 1, 0, TRUE), 0, max_typos)

\* Prefilter::match_haystack(haystack, max_typos)
Prefilter_match_haystack(needle, h, max_typos) ==
  IF max_typos = 0 THEN prefilter_match_haystack(needle, h)
  ELSE prefilter_match_haystack_typos(needle, h, max_typos)

(***************************************************************************)
(* src/lib.rs: Match and its order; src/one_shot/matcher.rs: Matcher       *)
(***************************************************************************)
Match_from_index(index) == [index |-> index, score |-> 0, exact |-> FALSE]

\* Ord for Match and MatchIndices: higher score first, then lower index
Match_lt(a, b) == a.score > b.score \/ (a.score = b.score /\ a.index < b.index)

\* a sort that leaves the records where they are
sort_unstable_skipped(matches) == matches

\* matches.sort_unstable(): no two records of one list compare equal (their
\* indices differ), so the sorted order is unique
sort_unstable(matches) == SortSeq(matches, Match_lt)

\* a scorer that marks exact matches as the source does but adds
\* exact_match_bonus to every record
smith_waterman_one_bonus_always(needle, config, haystack, index, include_exact) ==
  LET to_match(r) ==
        IF ~IsSome(r.out) THEN r
        ELSE [panic |-> FALSE,
              out |-> Some([index |-> index,
                            score |-> add_u16(r.out[1], config.scoring.exact_match_bonus),
                            exact |-> include_exact /\ needle = haystack])]
  IN to_match(match_haystack(needle, haystack, config.max_typos, config.scoring))

\* [panic, out]: out is None or Some(Match)
smith_waterman_one(needle, config, haystack, index, include_exact) ==
  LET exact == include_exact /\ needle = haystack
      to_match(r) ==
        IF ~IsSome(r.out) THEN r
        ELSE [panic |-> FALSE,
              out |-> Some([index |-> index,
                            score |-> IF exact
                                      THEN add_u16(r.out[1], config.scoring.exact_match_bonus)
                                      ELSE r.out[1],
                            exact |-> exact])]
  IN to_match(match_haystack(needle, haystack, config.max_typos, config.scoring))

\* [panic, out]: out is None or Some(MatchIndices)
smith_waterman_indices_one(needle, config, haystack, skipped_chunks, index, include_exact) ==
  LET exact == include_exact /\ needle = haystack
      to_match(r) ==
        IF ~IsSome(r.out) THEN r
        ELSE [panic |-> FALSE,
              out |-> Some([index |-> index,
                            score |-> IF exact
                                      THEN add_u16(r.out[1].score,
                                                   config.scoring.exact_match_bonus)
                                      ELSE r.out[1].score,
                            exact |-> exact,
                            indices |-> r.out[1].indices])]
  IN to_match(match_haystack_indices(needle, haystack, skipped_chunks, config.max_typos,
                                     config.scoring))

\* the length check applied without regard to max_typos
min_haystack_len_without_typos(needle, config) == Len(needle)

min_haystack_len(needle, config) ==
  IF IsSome(config.max_typos) THEN subs_u16(Len(needle), config.max_typos[1]) ELSE 0

\* one item of prefilter_iter: None, or Some of the haystack with its skipped
\* chunks cut off and their count
prefilter_one(needle, config, haystack) ==
  IF Len(haystack) < min_haystack_len(needle, config) THEN None
  ELSE LET cut(pf) ==
             IF pf.matched
             THEN Some([haystack |-> SubSeq(haystack, pf.skipped_chunks * LANES + 1,
                                            Len(haystack)),
                        skipped_chunks |-> pf.skipped_chunks])
             ELSE None
       IN cut(IF IsSome(config.max_typos)
              THEN Prefilter_match_haystack(needle, haystack, config.max_typos[1])
              ELSE [matched |-> TRUE, skipped_chunks |-> 0])

\* prefilter_iter's filter and cut, then smith_waterman_one, for the haystack
\* at position index
scan_one(needle, config, haystack, index) ==
  LET score(p) ==
        IF ~IsSome(p) THEN [panic |-> FALSE, out |-> None]
        ELSE smith_waterman_one(needle, config, p[1].haystack, index, p[1].skipped_chunks = 0)
  IN score(prefilter_one(needle, config, haystack))

scan_indices_one(needle, config, haystack, index) ==
  LET score(p) ==
        IF ~IsSome(p) THEN [panic |-> FALSE, out |-> None]
        ELSE smith_waterman_indices_one(needle, config, p[1].haystack, p[1].skipped_chunks,
                                        index, p[1].skipped_chunks = 0)
  IN score(prefilter_one(needle, config, haystack))

(***************************************************************************)
(* The needles and haystacks of the list-level specifications come from    *)
(* two pools.  What the matcher makes of one haystack depends on the       *)
(* needle, the configuration and the haystack alone, so it is tabulated    *)
(* once for the pools; the index is put into the record afterwards.        *)
(***************************************************************************)
NeedlePool == {<<97>>, <<97, 66>>, <<97, 66, 98>>, <<97, 98>>, <<98>>}
\* haystacks of 1 to 7 bytes go to prefilter::scalar, which the sources do
\* not hold; the haystacks of a call that has max_typos set are therefore
\* empty or filled up with "x" to the 8 bytes of the chunked prefilter
Padded(s) == s \o [i \in 1..((LANES \div 2) - Len(s)) |-> 120]
HaystackPool == {Padded(<<66, 97, 98, 98>>), Padded(<<97, 66>>), Padded(<<98>>)}
Filler == Padded(<<>>)
TyposOptions == {None} \cup {Some(t) : t \in 0..MaxTypos}
Scorings == {CallerScoring}

PoolConfig(t) ==
  [max_typos |-> IF t < 0 THEN None ELSE Some(t), sort |-> TRUE, scoring |-> CallerScoring]

\* keyed by needle, haystack and max_typos (None is keyed as -1)
PoolOutcome ==
  [n \in NeedlePool, h \in HaystackPool \cup {Filler}, t \in (-1)..MaxTypos |->
     scan_one(n, PoolConfig(t), h, 0)]

PoolIndicesOutcome ==
  [n \in NeedlePool, h \in HaystackPool \cup {Filler}, t \in (-1)..MaxTypos |->
     scan_indices_one(n, PoolConfig(t), h, 0)]

InPools(needle, config, haystack) ==
  /\ needle \in NeedlePool /\ haystack \in HaystackPool \cup {Filler}
  /\ config.scoring = CallerScoring
  /\ (IsSome(config.max_typos) => config.max_typos[1] <= MaxTypos)

PoolKey(config) == IF IsSome(config.max_typos) THEN config.max_typos[1] ELSE -1

with_index(r, index) ==
  IF IsSome(r.out) THEN [r EXCEPT !.out = Some([r.out[1] EXCEPT !.index = index])] ELSE r

match_one(needle, config, haystack, index) ==
  IF InPools(needle, config, haystack)
  THEN with_index(PoolOutcome[needle, haystack, PoolKey(config)], index)
  ELSE scan_one(needle, config, haystack, index)

match_indices_one(needle, config, haystack, index) ==
  IF InPools(needle, config, haystack)
  THEN with_index(PoolIndicesOutcome[needle, haystack, PoolKey(config)], index)
  ELSE scan_indices_one(needle, config, haystack, index)

\* the records of outs[lo..hi], in list order (the list is halved so that the
\* evaluation depth stays logarithmic in its length)
RECURSIVE collect(_, _, _)
collect(outs, lo, hi) ==
  IF lo > hi THEN <<>>
  ELSE IF lo = hi THEN outs[lo].out
  ELSE collect(outs, lo, (lo + hi) \div 2) \o collect(outs, ((lo + hi) \div 2) + 1, hi)

\* the loop over the per-haystack outcomes: a panic in one of them ends the
\* call, otherwise the records are pushed in list order
push_all(outs, matches) ==
  IF \E i \in 1..Len(outs) : outs[i].panic
  THEN [panic |-> TRUE, matches |-> matches]
  ELSE [panic |-> FALSE, matches |-> matches \o collect(outs, 1, Len(outs))]

\* a from_indices that counts the records from 1
from_indices_from_one(haystack_count, offset) ==
  [i \in 1..haystack_count |-> Match_from_index(i + offset)]

from_indices(haystack_count, offset) ==
  [i \in 1..haystack_count |-> Match_from_index(i - 1 + offset)]

match_list_into(needle, config, hs, haystack_index_offset, matches) ==
  IF needle = <<>>
  THEN [panic |-> FALSE, matches |-> matches \o from_indices(Len(hs), haystack_index_offset)]
  ELSE push_all(<<>> \o [i \in 1..Len(hs) |->
                          match_one(needle, config, hs[i], i - 1 + haystack_index_offset)],
                matches)

MatchIndices_from_index(index) ==
  [index |-> index, score |-> 0, exact |-> FALSE, indices |-> <<>>]

\* a match_list_indices_into that numbers the records from 0 whatever the
\* offset
match_list_indices_into_without_offset(needle, config, hs, haystack_index_offset, matches) ==
  IF needle = <<>>
  THEN [panic |-> FALSE,
        matches |-> matches \o [i \in 1..Len(hs) |-> MatchIndices_from_index(i - 1)]]
  ELSE push_all(<<>> \o [i \in 1..Len(hs) |-> match_indices_one(needle, config, hs[i], i - 1)],
                matches)

match_list_indices_into(needle, config, hs, haystack_index_offset, matches) ==
  IF needle = <<>>
  THEN [panic |-> FALSE,
        matches |-> matches \o [i \in 1..Len(hs) |->
                                  MatchIndices_from_index(i - 1 + haystack_index_offset)]]
  ELSE push_all(<<>> \o [i \in 1..Len(hs) |->
                          match_indices_one(needle, config, hs[i], i - 1 + haystack_index_offset)],
                matches)

sorted_if(config, r) ==
  IF config.sort /\ ~r.panic THEN [r EXCEPT !.matches = sort_unstable(r.matches)] ELSE r

\* Matcher::match_list
Matcher_match_list(needle, config, hs) ==
  IF needle = <<>>
  THEN [panic |-> FALSE, matches |-> from_indices(Len(hs), 0)]
  ELSE sorted_if(config, match_list_into(needle, config, hs, 0, <<>>))

\* Matcher::match_list_indices
Matcher_match_list_indices(needle, config, hs) ==
  IF needle = <<>>
  THEN [panic |-> FALSE,
        matches |-> [i \in 1..Len(hs) |-> MatchIndices_from_index(i - 1)]]
  ELSE sorted_if(config, match_list_indices_into(needle, config, hs, 0, <<>>))

(***************************************************************************)
(* src/incremental.rs: IncrementalMatcher.  self is the record of the      *)
(* fields prev_needle, matched_indices and prev_haystack_count; an         *)
(* operation yields the fields after it, the records it returns and the    *)
(* case it took.                                                           *)
(***************************************************************************)
IncrementalMatcher_new ==
  [prev_needle |-> <<>>, matched_indices |-> <<>>, prev_haystack_count |-> 0]

is_prefix_extension(self, needle) ==
  /\ self.prev_needle # <<>>
  /\ Len(needle) > Len(self.prev_needle)
  /\ SubSeq(needle, 1, Len(self.prev_needle)) = self.prev_needle

\* the needle recorded, the count left as it was
set_prev_needle_only(self, needle, haystack_count) == [self EXCEPT !.prev_needle = needle]

set_prev(self, needle, haystack_count) ==
  [self EXCEPT !.prev_needle = needle, !.prev_haystack_count = haystack_count]

indices_of(matches) == [k \in 1..Len(matches) |-> matches[k].index]

\* the indices left in the order of the records
sort_indices_skipped(indices) == indices

\* matched_indices.sort_unstable()
sort_indices(indices) == SortSeq(indices, LAMBDA a, b : a < b)

update_state_from_matches(self, needle, haystack_count, indices) ==
  [prev_needle |-> needle, matched_indices |-> sort_indices(indices),
   prev_haystack_count |-> haystack_count]

Incremental_panic(self) == [self |-> self, panic |-> TRUE, matches |-> <<>>]

full_rescore(self, config, hs, needle, haystack_count) ==
  LET keep(r) ==
        IF r.panic THEN Incremental_panic(self)
        ELSE [self |-> set_prev([self EXCEPT !.matched_indices = indices_of(r.matches)],
                                needle, haystack_count),
              panic |-> FALSE,
              matches |-> IF config.sort THEN sort_unstable(r.matches) ELSE r.matches]
  IN keep(match_list_into(needle, config, hs, 0, <<>>))

\* the body of the loop over the retained indices idxs: the length check, the
\* prefilter and smith_waterman_one for haystacks[idx]; an index beyond the
\* list is an out-of-bounds panic
rescore_retained(needle, config, hs, idxs) ==
  <<>> \o [k \in 1..Len(idxs) |->
            IF idxs[k] < Len(hs)
            THEN match_one(needle, config, hs[idxs[k] + 1], idxs[k])
            ELSE [panic |-> TRUE, out |-> None]]

\* the survivors are written back over matched_indices in reading order
match_narrowed_unsorted(self, needle, config, hs) ==
  LET keep(r) ==
        IF r.panic THEN Incremental_panic(self)
        ELSE [self |-> [self EXCEPT !.matched_indices = indices_of(r.matches)],
              panic |-> FALSE, matches |-> r.matches]
  IN keep(push_all(rescore_retained(needle, config, hs, self.matched_indices), <<>>))

match_narrowed_with_growth(self, needle, config, hs) ==
  LET prev_count == self.prev_haystack_count
      keep(narrowed, r) ==
        IF narrowed.panic \/ r.panic THEN Incremental_panic(self)
        ELSE [self |-> [narrowed.self EXCEPT !.matched_indices =
                          @ \o indices_of(SubSeq(r.matches, Len(narrowed.matches) + 1,
                                                 Len(r.matches)))],
              panic |-> FALSE,
              matches |-> IF config.sort THEN sort_unstable(r.matches) ELSE r.matches]
      tail(narrowed) ==
        keep(narrowed,
             match_list_into(needle, config, SubSeq(hs, prev_count + 1, Len(hs)), prev_count,
                             narrowed.matches))
  IN tail(match_narrowed_unsorted(self, needle, config, hs))

\* a case analysis that narrows whenever the needle extends the previous
\* one, whatever the length of the list
match_list_case_any_count(self, needle, haystack_count) ==
  IF needle = <<>> THEN "Empty"
  ELSE IF is_prefix_extension(self, needle) /\ haystack_count <= self.prev_haystack_count
  THEN "Narrow"
  ELSE IF is_prefix_extension(self, needle) THEN "NarrowGrow"
  ELSE "Full"

\* the case a call takes
match_list_case(self, needle, haystack_count) ==
  IF needle = <<>> THEN "Empty"
  ELSE IF is_prefix_extension(self, needle) /\ haystack_count = self.prev_haystack_count
  THEN "Narrow"
  ELSE IF is_prefix_extension(self, needle) /\ haystack_count > self.prev_haystack_count
  THEN "NarrowGrow"
  ELSE "Full"

\* IncrementalMatcher::match_list
IncrementalMatcher_match_list(self, config, needle, hs) ==
  LET haystack_count == Len(hs)
      which == match_list_case(self, needle, haystack_count)
  IN IF which = "Empty"
     THEN [self |-> [prev_needle |-> <<>>, matched_indices |-> <<>>,
                     prev_haystack_count |-> haystack_count],
           panic |-> FALSE, matches |-> from_indices(haystack_count, 0)]
     ELSE IF which = "Narrow"
     THEN LET done(r) ==
                IF r.panic THEN r
                ELSE [self |-> set_prev(r.self, needle, haystack_count), panic |-> FALSE,
                      matches |-> IF config.sort THEN sort_unstable(r.matches) ELSE r.matches]
          IN done(match_narrowed_unsorted(self, needle, config, hs))
     ELSE IF which = "NarrowGrow"
     THEN LET done(r) ==
                IF r.panic THEN r
                ELSE [r EXCEPT !.self = set_prev(r.self, needle, haystack_count)]
          IN done(match_narrowed_with_growth(self, needle, config, hs))
     ELSE full_rescore(self, config, hs, needle, haystack_count)

\* a reset that forgets the retained indices and the count but not the needle
reset_keeping_needle(self) ==
  [self EXCEPT !.matched_indices = <<>>, !.prev_haystack_count = 0]

\* IncrementalMatcher::reset
reset(self) == IncrementalMatcher_new


\* IncrementalMatcher::match_list_indices: the cases of match_list, with
\* full_rescore_indices, match_narrowed_indices_unsorted and
\* match_narrowed_indices_with_growth in the places of their Match versions
IncrementalMatcher_match_list_indices(self, config, needle, hs) ==
  LET haystack_count == Len(hs)
      which == match_list_case(self, needle, haystack_count)
      prev_count == self.prev_haystack_count
      sorted(matches) == IF config.sort THEN sort_unstable(matches) ELSE matches
      full_rescore_indices ==
        LET keep(r) ==
              IF r.panic THEN Incremental_panic(self)
              ELSE [self |-> set_prev([self EXCEPT !.matched_indices = indices_of(r.matches)],
                                      needle, haystack_count),
                    panic |-> FALSE, matches |-> sorted(r.matches)]
        IN keep(match_list_indices_into(needle, config, hs, 0, <<>>))
      rescored ==
        <<>> \o [k \in 1..Len(self.matched_indices) |->
                  IF self.matched_indices[k] < Len(hs)
                  THEN match_indices_one(needle, config, hs[self.matched_indices[k] + 1],
                                         self.matched_indices[k])
                  ELSE [panic |-> TRUE, out |-> None]]
      match_narrowed_indices_unsorted ==
        LET keep(r) ==
              IF r.panic THEN Incremental_panic(self)
              ELSE [self |-> [self EXCEPT !.matched_indices = indices_of(r.matches)],
                    panic |-> FALSE, matches |-> r.matches]
        IN keep(push_all(rescored, <<>>))
      match_narrowed_indices_with_growth ==
        LET keep(narrowed, r) ==
              IF narrowed.panic \/ r.panic THEN Incremental_panic(self)
              ELSE [self |-> [narrowed.self EXCEPT !.matched_indices =
                                @ \o indices_of(SubSeq(r.matches, Len(narrowed.matches) + 1,
                                                       Len(r.matches)))],
                    panic |-> FALSE, matches |-> sorted(r.matches)]
            tail(narrowed) ==
              keep(narrowed,
                   match_list_indices_into(needle, config, SubSeq(hs, prev_count + 1, Len(hs)),
                                           prev_count, narrowed.matches))
        IN tail(match_narrowed_indices_unsorted)
      narrow_done(r) ==
        IF r.panic THEN r
        ELSE [self |-> set_prev(r.self, needle, haystack_count), panic |-> FALSE,
              matches |-> sorted(r.matches)]
      grow_done(r) ==
        IF r.panic THEN r ELSE [r EXCEPT !.self = set_prev(r.self, needle, haystack_count)]
  IN IF which = "Empty"
     THEN [self |-> [prev_needle |-> <<>>, matched_indices |-> <<>>,
                     prev_haystack_count |-> haystack_count],
           panic |-> FALSE,
           matches |-> [i \in 1..haystack_count |-> MatchIndices_from_index(i - 1)]]
     ELSE IF which = "Narrow" THEN narrow_done(match_narrowed_indices_unsorted)
     ELSE IF which = "NarrowGrow" THEN grow_done(match_narrowed_indices_with_growth)
     ELSE full_rescore_indices
(***************************************************************************)
(* The parallel matchers: src/one_shot/parallel.rs and the parallel half   *)
(* of src/incremental.rs.  Workers claim chunks of chunk_size haystacks    *)
(* (or retained indices) from a shared counter.                            *)
(***************************************************************************)
chunk_size == 512
num_chunks(count) == DivCeil(count, chunk_size)

\* a worker that scans the first chunk whatever chunk it claimed
match_chunk_first(needle, config, hs, chunk_idx, local) ==
  match_list_into(needle, config, SubSeq(hs, 1, Min2(chunk_size, Len(hs))), 0, local)

\* the records a worker pushes for chunk chunk_idx of the haystack list
match_chunk(needle, config, hs, chunk_idx, local) ==
  LET start == chunk_idx * chunk_size
      end == Min2(start + chunk_size, Len(hs))
  IN match_list_into(needle, config, SubSeq(hs, start + 1, end), start, local)

\* the records a worker pushes for chunk chunk_idx of the retained indices
narrow_chunk(needle, config, hs, idxs, chunk_idx, local) ==
  LET start == chunk_idx * chunk_size
      end == Min2(start + chunk_size, Len(idxs))
  IN push_all(rescore_retained(needle, config, hs, SubSeq(idxs, start + 1, end)), local)

\* flat_map over the joined vectors, in handle order
RECURSIVE flat_map(_, _)
flat_map(lists, t) == IF t > Len(lists) THEN <<>> ELSE lists[t] \o flat_map(lists, t + 1)

\* the merging iterators: lists are the inputs, st.pos[t] the next position
\* of input t and st.out what was yielded.  A step yields the least of the
\* heads; of two heads neither of which is less, the one of the earlier input.
merge_live(lists, st) == {t \in 1..Len(lists) : st.pos[t] <= Len(lists[t])}

merge_least(lists, st) ==
  CHOOSE t \in merge_live(lists, st) :
    \A u \in merge_live(lists, st) \ {t} :
      \/ Match_lt(lists[t][st.pos[t]], lists[u][st.pos[u]])
      \/ (~Match_lt(lists[u][st.pos[u]], lists[t][st.pos[t]]) /\ t < u)

merge_step(lists, st) ==
  LET t == merge_least(lists, st) IN
  [pos |-> [st.pos EXCEPT ![t] = @ + 1], out |-> Append(st.out, lists[t][st.pos[t]])]

\* the state after n steps from st.  The run is halved; st is looked at
\* before anything else, so that the first half is finished before the second
\* begins and the evaluation depth stays logarithmic in n.
RECURSIVE merge_run(_, _, _)
merge_run(lists, st, n) ==
  IF Len(st.out) < 0 \/ n = 0 THEN st
  ELSE IF n = 1 THEN merge_step(lists, st)
  ELSE merge_run(lists, merge_run(lists, st, n \div 2), n - (n \div 2))

\* a join that chains the workers' vectors in handle order
kmerge_in_handle_order(lists) == flat_map(lists, 1)

RECURSIVE total_len(_, _)
total_len(lists, t) == IF t > Len(lists) THEN 0 ELSE Len(lists[t]) + total_len(lists, t + 1)

\* itertools kmerge over the joined vectors, collected
kmerge(lists) ==
  merge_run(lists, [pos |-> <<>> \o [t \in 1..Len(lists) |-> 1], out |-> <<>>], total_len(lists, 1)).out

\* itertools merge of two iterators, collected
merge(left, right) == kmerge(<<left, right>>)

\* what the scope returns once every handle is joined
join_handles(config, locals) ==
  IF config.sort THEN kmerge(locals) ELSE flat_map(locals, 1)

\* match_narrowed_parallel before the workers: the tail of a grown list
new_tail(self, needle, config, hs) ==
  IF Len(hs) > self.prev_haystack_count
  THEN match_list_into(needle, config,
                       SubSeq(hs, self.prev_haystack_count + 1, Len(hs)),
                       self.prev_haystack_count, <<>>)
  ELSE [panic |-> FALSE, matches |-> <<>>]

\* match_narrowed_parallel after the workers
narrowed_parallel_result(config, thread_matches, tail_matches) ==
  IF tail_matches = <<>> THEN thread_matches
  ELSE IF config.sort THEN merge(thread_matches, tail_matches)
  ELSE thread_matches \o tail_matches

narrowed_parallel_indices(all_indices, tail_matches) ==
  sort_indices(all_indices) \o indices_of(tail_matches)

(***************************************************************************)
(* The inputs.  For the engine and the matcher on one haystack, needles    *)
(* and haystacks range over every string of the alphabet up to the length  *)
(* bounds; haystack lists are built from the pool.                         *)
(***************************************************************************)
Alphabet == {97, 98, 66}
Strings(n) == UNION {[1..k -> Alphabet] : k \in 0..n}
Needles == Strings(MaxNeedleLen) \ {<<>>}
Haystacks == Strings(MaxHayLen)
Lists == UNION {[1..k -> HaystackPool] : k \in 0..MaxHaystacks}
Configs == [max_typos : TyposOptions, sort : BOOLEAN, scoring : Scorings]
ListNeedles == NeedlePool \cup {<<>>}
Threads == 1..MaxThreads

\* a list that fills the first chunk up to its last place with the filler and
\* goes on with the haystacks of l
BigList(l) ==
  [i \in 1..(chunk_size - 1 + Len(l)) |->
     IF i < chunk_size THEN Filler ELSE l[i - chunk_size + 1]]
BigLists == {BigList(l) : l \in {m \in Lists : Len(m) = 2}}

\* the lists a caller may pass after hs: the same list, a list grown by one
\* or two haystacks, a list cut by one
NextLists(hs) ==
  {hs} \cup {hs \o l : l \in {m \in Lists : Len(m) \in 1..2 /\ Len(hs) + Len(m) <= MaxHaystacks}}
       \cup {SubSeq(hs, 1, Len(hs) - 1) : k \in {1} \cap (1..Len(hs))}

\* "fixed" while every call got the first list, "grown" once a call got a
\* longer one, "cut" once a call got a shorter one
next_history(history, old, new) ==
  IF Len(new) < Len(old) \/ history = "cut" THEN "cut"
  ELSE IF new # old THEN "grown" ELSE history

NoResult == [panic |-> FALSE, matches |-> <<>>]
Panicked == [panic |-> TRUE, matches |-> <<>>]
Self ==
  [prev_needle |-> prev_needle, matched_indices |-> matched_indices,
   prev_haystack_count |-> prev_haystack_count]
SetSelf(self) ==
  /\ prev_needle' = self.prev_needle
  /\ matched_indices' = self.matched_indices
  /\ prev_haystack_count' = self.prev_haystack_count

\* the matrices' memory is followed by SpecMatrix alone
NoMatrices == [len |-> 0, needle_len |-> 0, haystack_chunks |-> 0, written |-> {}]

InitCommon ==
  /\ cur_result = NoResult /\ op = "new" /\ taken = "none"
  /\ prev_needle = <<>> /\ matched_indices = <<>> /\ prev_haystack_count = 0
  /\ list_history = "fixed"
  /\ par_mode = "idle" /\ next_chunk = 0 /\ pc = <<>> /\ local_matches = <<>>
  /\ local_indices = <<>> /\ new_tail_matches = <<>>
  /\ overflow_checks = FALSE
  /\ matrices = NoMatrices

(***************************************************************************)
(* The one-shot Matcher and the engine on one haystack.  A call leaves     *)
(* nothing behind but what it returns, so a behaviour makes one call.      *)
(***************************************************************************)
\* the haystacks a call with max_typos t is given
HaystacksFor(t) ==
  IF IsSome(t) THEN {<<>>} \cup {Padded(h) : h \in Haystacks \ {<<>>}} ELSE Haystacks

Init ==
  /\ cur_config \in {c \in Configs : c.sort}
  /\ cur_needle \in Needles
  /\ cur_haystacks \in {<<h>> : h \in HaystacksFor(cur_config.max_typos)}
  /\ InitCommon

\* the engine is called without the prefilter
InitEngine ==
  /\ cur_config \in {c \in Configs : c.sort}
  /\ cur_needle \in Needles
  /\ cur_haystacks \in {<<h>> : h \in Haystacks}
  /\ InitCommon

\* match_list(n, cur_haystacks, cur_config)
OneShot(n) ==
  /\ ~cur_result.panic /\ par_mode = "idle"
  /\ cur_needle' = n
  /\ cur_result' = Matcher_match_list(n, cur_config, cur_haystacks)
  /\ op' = "match_list" /\ taken' = "none"
  /\ UNCHANGED <<cur_config, overflow_checks, matrices, cur_haystacks, inc_vars, par_vars>>

MatchList == op = "new" /\ OneShot(cur_needle)

MatchListIndices ==
  /\ op = "new"
  /\ cur_result' = Matcher_match_list_indices(cur_needle, cur_config, cur_haystacks)
  /\ op' = "match_list_indices"
  /\ UNCHANGED <<call_vars, overflow_checks, matrices, taken, inc_vars, par_vars>>

\* the engine alone, on the first haystack
MatchHaystack ==
  /\ op = "new"
  /\ LET returned(r) == cur_result' = [panic |-> r.panic, matches |-> r.out]
     IN returned(match_haystack(cur_needle, cur_haystacks[1], cur_config.max_typos,
                                cur_config.scoring))
  /\ op' = "match_haystack"
  /\ UNCHANGED <<call_vars, overflow_checks, matrices, taken, inc_vars, par_vars>>

Next == MatchList \/ MatchListIndices

Spec == Init /\ [][Next]_vars

NextEngine == MatchHaystack

SpecEngine == InitEngine /\ [][NextEngine]_vars

(***************************************************************************)
(* One IncrementalMatcher, called again and again                          *)
(***************************************************************************)
InitInc ==
  /\ cur_config \in Configs
  /\ cur_needle = <<>>
  /\ cur_haystacks \in Lists
  /\ InitCommon

IncMatchList(n, hs) ==
  /\ ~cur_result.panic /\ par_mode = "idle"
  /\ LET returned(r) ==
           /\ cur_result' = [panic |-> r.panic, matches |-> r.matches]
           /\ SetSelf(r.self)
     IN returned(IncrementalMatcher_match_list(Self, cur_config, n, hs))
  /\ taken' = match_list_case(Self, n, Len(hs))
  /\ cur_needle' = n /\ cur_haystacks' = hs
  /\ list_history' = next_history(list_history, cur_haystacks, hs)
  /\ op' = "inc_match_list"
  /\ UNCHANGED <<cur_config, overflow_checks, matrices, par_vars>>

IncMatchListIndices(n, hs) ==
  /\ ~cur_result.panic /\ par_mode = "idle"
  /\ LET returned(r) ==
           /\ cur_result' = [panic |-> r.panic, matches |-> r.matches]
           /\ SetSelf(r.self)
     IN returned(IncrementalMatcher_match_list_indices(Self, cur_config, n, hs))
  /\ taken' = match_list_case(Self, n, Len(hs))
  /\ cur_needle' = n /\ cur_haystacks' = hs
  /\ list_history' = next_history(list_history, cur_haystacks, hs)
  /\ op' = "inc_match_list_indices"
  /\ UNCHANGED <<cur_config, overflow_checks, matrices, par_vars>>

Reset ==
  /\ ~cur_result.panic /\ par_mode = "idle"
  /\ SetSelf(reset(Self))
  /\ op' = "reset" /\ taken' = "none"
  /\ UNCHANGED <<call_vars, overflow_checks, matrices, cur_result, list_history, par_vars>>

NextInc ==
  \/ \E n \in ListNeedles, hs \in NextLists(cur_haystacks) : IncMatchList(n, hs)
  \/ \E n \in ListNeedles : OneShot(n)
  \/ Reset

SpecInc == InitInc /\ [][NextInc]_vars

(***************************************************************************)
(* The parallel calls.  A call that spawns workers is three kinds of step: *)
(* the part before the scope, one step for every claim of a worker (the    *)
(* fetch_add and the chunk it yields, which touches nothing shared but the *)
(* counter), and the joins with what follows them.                         *)
(***************************************************************************)
StartWorkers(mode, w) ==
  /\ par_mode' = mode /\ next_chunk' = 0
  /\ pc' = [t \in 1..w |-> "loop"]
  /\ local_matches' = [t \in 1..w |-> <<>>]
  /\ local_indices' = [t \in 1..w |-> <<>>]

NoWorkers ==
  /\ par_mode' = "idle" /\ next_chunk' = 0
  /\ pc' = <<>> /\ local_matches' = <<>> /\ local_indices' = <<>>

\* match_list_parallel up to the scope
MatchListParallel(n, w) ==
  /\ ~cur_result.panic /\ par_mode = "idle"
  /\ cur_needle' = n /\ taken' = "none" /\ new_tail_matches' = <<>>
  /\ IF n = <<>>
     THEN /\ cur_result' = [panic |-> FALSE, matches |-> from_indices(Len(cur_haystacks), 0)]
          /\ op' = "match_list_parallel" /\ NoWorkers
     ELSE IF cur_haystacks = <<>>
     THEN cur_result' = NoResult /\ op' = "match_list_parallel" /\ NoWorkers
     ELSE cur_result' = NoResult /\ op' = "running" /\ StartWorkers("one_shot", w)
  /\ UNCHANGED <<cur_config, overflow_checks, matrices, cur_haystacks, inc_vars>>

\* the case IncrementalMatcher::match_list_parallel takes
match_list_parallel_case(self, needle, haystack_count) ==
  IF needle = <<>> THEN "Empty"
  ELSE IF is_prefix_extension(self, needle) /\ haystack_count >= self.prev_haystack_count
  THEN "Narrow"
  ELSE "Full"

\* IncrementalMatcher::match_list_parallel up to the scope of
\* match_narrowed_parallel or full_rescore_parallel
IncMatchListParallel(n, hs, w) ==
  /\ ~cur_result.panic /\ par_mode = "idle"
  /\ cur_needle' = n /\ cur_haystacks' = hs
  /\ list_history' = next_history(list_history, cur_haystacks, hs)
  /\ taken' = match_list_parallel_case(Self, n, Len(hs))
  /\ LET which == match_list_parallel_case(Self, n, Len(hs))
         before_scope(tail) ==
        IF which = "Empty"
        THEN /\ cur_result' = [panic |-> FALSE, matches |-> from_indices(Len(hs), 0)]
             /\ SetSelf([prev_needle |-> <<>>, matched_indices |-> <<>>,
                         prev_haystack_count |-> Len(hs)])
             /\ op' = "inc_match_list_parallel" /\ NoWorkers /\ new_tail_matches' = <<>>
        ELSE IF which = "Narrow" /\ tail.panic
        THEN /\ cur_result' = Panicked /\ op' = "inc_match_list_parallel"
             /\ NoWorkers /\ new_tail_matches' = <<>>
             /\ UNCHANGED <<prev_needle, matched_indices, prev_haystack_count>>
        ELSE IF which = "Narrow" /\ matched_indices = <<>>
        THEN /\ cur_result' = sorted_if(cur_config, tail)
             /\ SetSelf(set_prev([Self EXCEPT !.matched_indices = indices_of(tail.matches)],
                                 n, Len(hs)))
             /\ op' = "inc_match_list_parallel" /\ NoWorkers /\ new_tail_matches' = <<>>
        ELSE IF which = "Narrow"
        THEN /\ cur_result' = NoResult /\ op' = "running"
             /\ StartWorkers("narrow", w) /\ new_tail_matches' = tail.matches
             /\ UNCHANGED <<prev_needle, matched_indices, prev_haystack_count>>
        ELSE IF hs = <<>>
        THEN /\ cur_result' = NoResult
             /\ SetSelf(update_state_from_matches(Self, n, Len(hs), <<>>))
             /\ op' = "inc_match_list_parallel" /\ NoWorkers /\ new_tail_matches' = <<>>
        ELSE /\ cur_result' = NoResult /\ op' = "running"
             /\ StartWorkers("full", w) /\ new_tail_matches' = <<>>
             /\ UNCHANGED <<prev_needle, matched_indices, prev_haystack_count>>
     IN before_scope(new_tail(Self, n, cur_config, hs))
  /\ UNCHANGED <<cur_config, overflow_checks, matrices>>

\* one turn of a worker's loop: claim a chunk; past the last chunk the worker
\* leaves the loop, sorts what it has if config.sort, and ends
Claim(t) ==
  /\ par_mode # "idle" /\ ~cur_result.panic /\ pc[t] = "loop"
  /\ next_chunk' = next_chunk + 1
  /\ LET count == IF par_mode = "narrow" THEN Len(matched_indices) ELSE Len(cur_haystacks)
         turn(r) ==
        IF next_chunk >= num_chunks(count)
        THEN /\ pc' = [pc EXCEPT ![t] = "done"]
             /\ local_matches' = [local_matches EXCEPT ![t] =
                                    IF cur_config.sort THEN sort_unstable(@) ELSE @]
             /\ UNCHANGED <<local_indices, cur_result>>
        ELSE IF r.panic
        THEN cur_result' = Panicked /\ UNCHANGED <<pc, local_matches, local_indices>>
        ELSE /\ local_matches' = [local_matches EXCEPT ![t] = r.matches]
             /\ local_indices' =
                  IF par_mode = "narrow"
                  THEN [local_indices EXCEPT ![t] =
                          @ \o indices_of(SubSeq(r.matches, Len(local_matches[t]) + 1,
                                                 Len(r.matches)))]
                  ELSE local_indices
             /\ UNCHANGED <<pc, cur_result>>
     IN turn(IF par_mode = "narrow"
             THEN narrow_chunk(cur_needle, cur_config, cur_haystacks, matched_indices,
                               next_chunk, local_matches[t])
             ELSE match_chunk(cur_needle, cur_config, cur_haystacks, next_chunk,
                              local_matches[t]))
  /\ UNCHANGED <<call_vars, overflow_checks, matrices, op, taken, inc_vars, par_mode, new_tail_matches>>

\* every handle joined: the scope's value and what the call does with it
Join ==
  /\ par_mode # "idle" /\ ~cur_result.panic
  /\ \A t \in 1..Len(pc) : pc[t] = "done"
  /\ LET joined(thread_matches) ==
     IF par_mode = "one_shot"
     THEN /\ cur_result' = [panic |-> FALSE, matches |-> thread_matches]
          /\ op' = "match_list_parallel"
          /\ UNCHANGED <<prev_needle, matched_indices, prev_haystack_count>>
     ELSE IF par_mode = "full"
     THEN /\ cur_result' = [panic |-> FALSE, matches |-> thread_matches]
          /\ op' = "inc_match_list_parallel"
          /\ SetSelf(update_state_from_matches(Self, cur_needle, Len(cur_haystacks),
                                               indices_of(thread_matches)))
     ELSE /\ cur_result' =
               [panic |-> FALSE,
                matches |-> narrowed_parallel_result(cur_config, thread_matches,
                                                     new_tail_matches)]
          /\ op' = "inc_match_list_parallel"
          /\ SetSelf(set_prev([Self EXCEPT !.matched_indices =
                                 narrowed_parallel_indices(flat_map(local_indices, 1),
                                                           new_tail_matches)],
                              cur_needle, Len(cur_haystacks)))
     IN joined(join_handles(cur_config, local_matches))
  /\ par_mode' = "idle"
  /\ UNCHANGED <<call_vars, overflow_checks, matrices, taken, list_history, next_chunk, pc, local_matches,
                 local_indices, new_tail_matches>>

\* lists of more than one chunk, never changed
InitPar ==
  /\ cur_config \in Configs
  /\ cur_needle = <<>>
  /\ cur_haystacks \in BigLists
  /\ InitCommon

\* the needles of the long lists: a needle and the needles it extends
ParNeedles == {n \in ListNeedles : SubSeq(<<97, 66, 98>>, 1, Len(n)) = n}

NextPar ==
  \/ \E n \in ParNeedles, w \in Threads : MatchListParallel(n, w)
  \/ \E n \in ParNeedles, w \in Threads : IncMatchListParallel(n, cur_haystacks, w)
  \/ \E t \in 1..Len(pc) : Claim(t)
  \/ Join

SpecPar == InitPar /\ [][NextPar]_vars

\* short lists that may grow
NextIncPar ==
  \/ \E n \in ListNeedles, hs \in NextLists(cur_haystacks), w \in Threads :
       IncMatchListParallel(n, hs, w)
  \/ \E t \in 1..Len(pc) : Claim(t)
  \/ Join

SpecIncPar == InitInc /\ [][NextIncPar]_vars


\* every entry point on short lists: the one-shot matcher and the serial
\* IncrementalMatcher called in any order, then the one-shot parallel
\* matcher, which keeps nothing from one call to the next
CallNeedles == {<<>>, <<97>>, <<97, 66>>}

NextCalls ==
  \/ \E n \in CallNeedles, hs \in NextLists(cur_haystacks) : pc = <<>> /\ IncMatchList(n, hs)
  \/ \E n \in CallNeedles : pc = <<>> /\ OneShot(n)
  \/ pc = <<>> /\ Reset
  \/ \E n \in CallNeedles, w \in Threads : MatchListParallel(n, w)
  \/ \E t \in 1..Len(pc) : Claim(t)
  \/ Join

SpecCalls == InitInc /\ [][NextCalls]_vars

\* the three entry points of one IncrementalMatcher, called with a needle,
\* its extensions and the empty needle: the serial ones in any order, then
\* the parallel one
NextIncAll ==
  \/ \E n \in ParNeedles, hs \in NextLists(cur_haystacks) : pc = <<>> /\ IncMatchList(n, hs)
  \/ \E n \in ParNeedles, hs \in NextLists(cur_haystacks) :
       pc = <<>> /\ IncMatchListIndices(n, hs)
  \/ \E n \in ParNeedles, hs \in NextLists(cur_haystacks), w \in Threads :
       IncMatchListParallel(n, hs, w)
  \/ \E t \in 1..Len(pc) : Claim(t)
  \/ Join

SpecIncAll == InitInc /\ [][NextIncAll]_vars

(***************************************************************************)
(* src/one_shot/matcher.rs: the score-overflow guard.  Matcher::new,       *)
(* set_needle and set_config end with guard_against_score_overflow, whose  *)
(* sums, difference and quotient are plain u16 arithmetic: with overflow   *)
(* checks an overflowing operation panics, without them it wraps; a zero   *)
(* divisor panics in every build.                                          *)
(***************************************************************************)
MaxGuardNeedleLen == 4

\* TRUE when the guard returns, FALSE when it panics
guard_against_score_overflow(needle_len, scoring, checks) ==
  LET s1 == scoring.match_score + scoring.capitalization_bonus \div 2
      s2 == (s1 % U16) + scoring.delimiter_bonus \div 2
      s3 == (s2 % U16) + scoring.matching_case_bonus
      max_per_char_score == s3 % U16
      d1 == (U16 - 1) - scoring.prefix_bonus
      d2 == d1 - scoring.exact_match_bonus
      overflowed == s1 >= U16 \/ s2 >= U16 \/ s3 >= U16 \/ d2 < 0
  IN IF checks /\ overflowed THEN FALSE
     ELSE IF max_per_char_score = 0 THEN FALSE
     ELSE needle_len <= (d2 % U16) \div max_per_char_score

\* what Matcher::new, set_needle and set_config leave: a matcher, or a panic
Matcher_new(needle, config, checks) ==
  [panic |-> ~guard_against_score_overflow(Len(needle), config.scoring, checks),
   matches |-> <<>>]

\* score += exact_match_bonus of smith_waterman_one goes past u16::MAX
exact_bonus_overflows(needle, config, haystack) ==
  LET past(r) == IsSome(r.out) /\ r.out[1] + config.scoring.exact_match_bonus >= U16
  IN needle = haystack /\ past(match_haystack(needle, haystack, config.max_typos, config.scoring))

\* the caller's scoring; one whose bound lies between three and four bytes;
\* one whose per-byte sum passes u16::MAX; one whose prefix and exact bonuses
\* together pass u16::MAX; one whose per-byte sum is zero; one with a large
\* delimiter bonus and a large matching-case bonus
GuardScorings ==
  {CallerScoring,
   [CallerScoring EXCEPT !.match_score = 20000],
   [CallerScoring EXCEPT !.match_score = 40000, !.matching_case_bonus = 40000],
   [CallerScoring EXCEPT !.prefix_bonus = 40000, !.exact_match_bonus = 40000],
   [CallerScoring EXCEPT !.match_score = 0, !.capitalization_bonus = 0,
                         !.delimiter_bonus = 0, !.matching_case_bonus = 0],
   [CallerScoring EXCEPT !.matching_case_bonus = 30000, !.delimiter_bonus = 40000]}

GuardNeedles == UNION {[1..k -> {97}] : k \in 0..MaxGuardNeedleLen}

\* the state after Matcher::new(cur_needle, cur_config)
InitGuard ==
  /\ cur_config \in {[max_typos |-> None, sort |-> FALSE, scoring |-> s] : s \in GuardScorings}
  /\ cur_needle \in GuardNeedles
  /\ cur_haystacks \in {<<<<97>>>>, <<<<95, 97>>>>, <<<<97, 97, 97>>>>}
  /\ overflow_checks \in BOOLEAN
  /\ matrices = NoMatrices
  /\ cur_result = Matcher_new(cur_needle, cur_config, overflow_checks)
  /\ op = "new" /\ taken = "none"
  /\ prev_needle = <<>> /\ matched_indices = <<>> /\ prev_haystack_count = 0
  /\ list_history = "fixed"
  /\ par_mode = "idle" /\ next_chunk = 0 /\ pc = <<>> /\ local_matches = <<>>
  /\ local_indices = <<>> /\ new_tail_matches = <<>>

SetNeedle(n) ==
  /\ ~cur_result.panic
  /\ cur_needle' = n
  /\ cur_result' = Matcher_new(n, cur_config, overflow_checks)
  /\ op' = "set_needle"
  /\ UNCHANGED <<cur_config, overflow_checks, matrices, cur_haystacks, taken, inc_vars, par_vars>>

SetConfig(c) ==
  /\ ~cur_result.panic
  /\ cur_config' = c
  /\ cur_result' = Matcher_new(cur_needle, c, overflow_checks)
  /\ op' = "set_config"
  /\ UNCHANGED <<cur_needle, overflow_checks, matrices, cur_haystacks, taken, inc_vars, par_vars>>

\* match_list of a matcher that passed the guard
GuardedMatchList ==
  /\ ~cur_result.panic
  /\ cur_result' =
       IF /\ overflow_checks
          /\ \E i \in 1..Len(cur_haystacks) :
               exact_bonus_overflows(cur_needle, cur_config, cur_haystacks[i])
       THEN Panicked
       ELSE Matcher_match_list(cur_needle, cur_config, cur_haystacks)
  /\ op' = "match_list"
  /\ UNCHANGED <<call_vars, overflow_checks, matrices, taken, inc_vars, par_vars>>

NextGuard ==
  \/ \E n \in GuardNeedles : SetNeedle(n)
  \/ \E s \in GuardScorings : SetConfig([cur_config EXCEPT !.scoring = s])
  \/ GuardedMatchList

SpecGuard == InitGuard /\ [][NextGuard]_vars

(***************************************************************************)
(* src/prefilter/x86_64: the prefilter called on its own, in its AVX2 and  *)
(* its SSE variant.  The variants share match_haystack; they differ in     *)
(* match_haystack_typos.                                                   *)
(***************************************************************************)
MaxPrefilterTypos == 3

\* PrefilterSSE::match_haystack_typos
sse_match_haystack_typos(needle, h, max_typos) ==
  IF Len(h) = 0 THEN [matched |-> TRUE, skipped_chunks |-> 0]
  ELSE IF Len(h) < LANES \div 2
  THEN [matched |-> scalar_match_haystack_typos(needle, h, max_typos), skipped_chunks |-> 0]
  ELSE IF max_typos >= 3 THEN [matched |-> TRUE, skipped_chunks |-> 0]
  ELSE [matched |-> typos_loop(needle, h, scan_chunks(needle, h, 0, 1, 0, TRUE), 0,
                               max_typos).matched,
        skipped_chunks |-> 0]

\* needles of one to four bytes over a, b, c and the zero byte
PrefilterNeedles ==
  {<<97>>, <<98>>, <<99>>, <<0>>, <<97, 98>>, <<98, 97>>, <<97, 99, 98>>, <<99, 99, 99, 99>>}

\* haystacks of 0, 3, 8, 12, 16, 17 and 33 bytes: x everywhere but for an a
\* and a B at chosen places
PrefilterHaystacks ==
  LET Put(len, pa, pb) ==
        [i \in 1..len |-> IF i = pa THEN 97 ELSE IF i = pb THEN 66 ELSE 120]
  IN {Put(len, pa, pb) : len \in {0, 3, 8, 12, 16, 17, 33}, pa \in {0, 1, 2, 17, 33},
                         pb \in {0, 1, 2, 17, 33}}

InitPrefilter ==
  /\ cur_config \in {[max_typos |-> Some(t), sort |-> FALSE, scoring |-> CallerScoring] :
                       t \in 0..MaxPrefilterTypos}
  /\ cur_needle \in PrefilterNeedles
  /\ cur_haystacks \in {<<h>> : h \in PrefilterHaystacks}
  /\ InitCommon

\* PrefilterAVX2::match_haystack / match_haystack_typos on the haystack
PrefilterAVX2 ==
  /\ op = "new"
  /\ cur_result' = [panic |-> FALSE,
                    matches |-> <<Prefilter_match_haystack(cur_needle, cur_haystacks[1],
                                                           cur_config.max_typos[1])>>]
  /\ op' = "prefilter_avx2"
  /\ UNCHANGED <<call_vars, overflow_checks, matrices, taken, inc_vars, par_vars>>

\* PrefilterSSE::match_haystack / match_haystack_typos on the haystack
PrefilterSSE ==
  /\ op = "new"
  /\ cur_result' = [panic |-> FALSE,
                    matches |-> <<IF cur_config.max_typos[1] = 0
                                  THEN prefilter_match_haystack(cur_needle, cur_haystacks[1])
                                  ELSE sse_match_haystack_typos(cur_needle, cur_haystacks[1],
                                                                cur_config.max_typos[1])>>]
  /\ op' = "prefilter_sse"
  /\ UNCHANGED <<call_vars, overflow_checks, matrices, taken, inc_vars, par_vars>>

NextPrefilter == PrefilterAVX2 \/ PrefilterSSE

SpecPrefilter == InitPrefilter /\ [][NextPrefilter]_vars

(***************************************************************************)
(* Haystacks of more than one chunk.  The one-shot Matcher cuts the chunks *)
(* the prefilter skipped off the haystack before it scores it              *)
(* (src/one_shot/matcher.rs: prefilter_iter); the engine alone scores the  *)
(* whole haystack.                                                         *)
(***************************************************************************)
MaxTailLen == 3

\* a first chunk of 16 bytes followed by a tail of 1..MaxTailLen bytes
LongHaystacks ==
  LET xs(n) == [i \in 1..n |-> 120]
      FirstChunks == {xs(LANES), xs(LANES - 1) \o <<95>>, <<97>> \o xs(LANES - 1)}
  IN {c \o t : c \in FirstChunks, t \in Strings(MaxTailLen) \ {<<>>}}

InitLong ==
  /\ cur_config \in {c \in Configs : c.sort}
  /\ cur_needle \in {n \in Needles : Len(n) <= 2}
  /\ cur_haystacks \in {<<h>> : h \in LongHaystacks}
  /\ InitCommon

NextLong == MatchList \/ MatchHaystack

SpecLong == InitLong /\ [][NextLong]_vars

(***************************************************************************)
(* src/smith_waterman/simd/matrix.rs.  The score matrix and the match-mask *)
(* matrix are built, sized, zeroed and written together, so one record     *)
(* stands for both: len is the length of the vector, written the set of    *)
(* its elements that hold values stored for earlier haystacks.             *)
(***************************************************************************)
Matrix_new(needle_len, haystack_len) ==
  [len |-> (needle_len + 1) * (DivCeil(haystack_len, LANES) + 1),
   needle_len |-> needle_len,
   haystack_chunks |-> DivCeil(haystack_len, LANES) + 1,
   written |-> {}]

set_haystack_chunks(self, chunks) == [self EXCEPT !.haystack_chunks = chunks]

\* the elements write_bytes sets to zero
zeroed_elements(self) == 0..((self.haystack_chunks + 1) * (self.needle_len + 1) - 1)

Matrix_zero(self) == [self EXCEPT !.written = @ \ zeroed_elements(self)]

\* the element get and set address
Matrix_index(self, needle_idx, haystack_idx) == needle_idx * self.haystack_chunks + haystack_idx

\* the elements score_haystack stores: rows 1..needle_len of the chunks from 1
stored_elements(self) ==
  {Matrix_index(self, row_idx, col_idx) :
     row_idx \in 1..self.needle_len, col_idx \in 1..(self.haystack_chunks - 1)}

\* the elements score_haystack and the traceback read without having stored
\* them: row 0 and chunk 0
border_elements(self) ==
  {Matrix_index(self, 0, col_idx) : col_idx \in 0..(self.haystack_chunks - 1)}
    \cup {Matrix_index(self, row_idx, 0) : row_idx \in 0..self.needle_len}

(***************************************************************************)
(* One SmithWatermanMatcher scoring one haystack after another             *)
(* (src/smith_waterman/simd/algo.rs: match_haystack, score_haystack).      *)
(***************************************************************************)
\* haystacks of 0 to MAX_HAYSTACK_LEN bytes that end in "aB"
MatrixHaystacks ==
  {[i \in 1..n |-> IF i = n THEN 66 ELSE IF i = n - 1 THEN 97 ELSE 120] :
     n \in {0, 1, 17, 33, 496, 497, MAX_HAYSTACK_LEN}}

InitMatrix ==
  /\ cur_config \in {c \in Configs : c.sort}
  /\ cur_needle \in {<<97>>, <<97, 66>>, <<97, 66, 98>>}
  /\ cur_haystacks = <<>>
  /\ cur_result = NoResult /\ op = "new" /\ taken = "none"
  /\ prev_needle = <<>> /\ matched_indices = <<>> /\ prev_haystack_count = 0
  /\ list_history = "fixed"
  /\ par_mode = "idle" /\ next_chunk = 0 /\ pc = <<>> /\ local_matches = <<>>
  /\ local_indices = <<>> /\ new_tail_matches = <<>>
  /\ overflow_checks = FALSE
  /\ matrices = Matrix_new(Len(cur_needle), MAX_HAYSTACK_LEN)

\* match_haystack(h, cur_config.max_typos) on the matcher's own matrices.
\* Zeroing past the end of the vector is undefined behaviour: the call goes
\* on or the process dies.  An element read that still holds a value of an
\* earlier haystack makes the outcome any verdict.
ScoreHaystack(h) ==
  /\ ~cur_result.panic
  /\ LET sized == set_haystack_chunks(matrices, DivCeil(Len(h), LANES) + 1)
         zeroed == Matrix_zero(sized)
         returned(r) ==
           LET clean == [panic |-> r.panic, matches |-> r.out] IN
           /\ cur_result' \in
                IF \E e \in zeroed_elements(sized) : e >= sized.len
                THEN {clean, Panicked}
                ELSE IF border_elements(zeroed) \cap zeroed.written # {}
                THEN {clean, [panic |-> FALSE, matches |-> None],
                      [panic |-> FALSE, matches |-> Some(0)]}
                ELSE {clean}
           /\ matrices' = [zeroed EXCEPT !.written = @ \cup stored_elements(zeroed)]
     IN returned(match_haystack(cur_needle, h, cur_config.max_typos, cur_config.scoring))
  /\ cur_haystacks' = <<h>>
  /\ op' = "match_haystack"
  /\ UNCHANGED <<cur_config, cur_needle, overflow_checks, taken, inc_vars, par_vars>>

NextMatrix == \E h \in MatrixHaystacks : ScoreHaystack(h)

SpecMatrix == InitMatrix /\ [][NextMatrix]_vars
(***************************************************************************)
(* Properties                                                              *)
(***************************************************************************)
IndexSet(matches) == {matches[k].index : k \in 1..Len(matches)}
Elements(s) == {s[k] : k \in 1..Len(s)}
IsPrefixOf(a, b) == Len(a) <= Len(b) /\ SubSeq(b, 1, Len(a)) = a

\* what the one-shot match_list returns for the arguments of the last call
OneShotNow == Matcher_match_list(cur_needle, cur_config, cur_haystacks)

\* C1: on a fixed haystack list, whatever needles came before, a call of
\* IncrementalMatcher.match_list returns what the one-shot match_list returns
\* for the same needle, list and configuration.
C1_IncrementalEqualsOneShot ==
  (op = "inc_match_list" /\ list_history = "fixed") =>
    (~cur_result.panic /\ cur_result.matches = OneShotNow.matches)

\* C2: after a call of IncrementalMatcher.match_list with a non-empty needle,
\* matched_indices holds exactly the indices the one-shot match_list returns
\* for that needle and list.
C2_MatchedIndicesAreOneShotIndices ==
  (op = "inc_match_list" /\ cur_needle # <<>> /\ ~cur_result.panic) =>
    Elements(matched_indices) = IndexSet(OneShotNow.matches)

\* C3: the indices match_list returns for a needle that extends m by one or
\* more bytes are among the indices it returns for m.
C3_ExtensionMatchesWithin ==
  (op = "match_list" /\ ~cur_result.panic) =>
    \A mc \in NeedlePool :
      (IsPrefixOf(cur_needle, mc) /\ mc # cur_needle) =>
        IndexSet(Matcher_match_list(mc, cur_config, cur_haystacks).matches)
          \subseteq IndexSet(cur_result.matches)

\* C4: match_list_parallel returns the sequence match_list returns, for any
\* number of workers, sorted or not, however the workers interleave.
C4_ParallelEqualsSerial ==
  op = "match_list_parallel" =>
    (~cur_result.panic /\ cur_result.matches = OneShotNow.matches)

\* C5: over calls whose lists equal or extend the one before,
\* IncrementalMatcher.match_list_parallel returns the sequence the one-shot
\* match_list returns for the needle and list of the call.
C5_IncrementalParallelEqualsOneShot ==
  (op = "inc_match_list_parallel" /\ list_history # "cut") =>
    (~cur_result.panic /\ cur_result.matches = OneShotNow.matches)

\* C6: with config.sort, the k-way merge of the workers' sorted vectors, in
\* match_list_parallel and in the full parallel rescore of the incremental
\* matcher, is the sequence the serial sort gives.
C6_MergeIsSerialOrder ==
  (cur_config.sort /\ ~cur_result.panic
     /\ (op = "match_list_parallel" \/ (op = "inc_match_list_parallel" /\ taken = "Full"))) =>
    cur_result.matches = OneShotNow.matches

C6_Witness ==
  /\ cur_config.sort /\ ~cur_result.panic /\ op = "match_list_parallel"
  /\ Len(pc) = 2 /\ local_matches[1] # <<>> /\ local_matches[2] # <<>>
  /\ Len(cur_result.matches) = Len(local_matches[1]) + Len(local_matches[2])

\* sequential order of a result: by score, highest first, equal scores by
\* index, lowest first, when sorted; by index, lowest first, when not
InOrder(config, matches) ==
  \A k \in 1..(Len(matches) - 1) :
    IF config.sort
    THEN \/ matches[k].score > matches[k + 1].score
         \/ matches[k].score = matches[k + 1].score /\ matches[k].index < matches[k + 1].index
    ELSE matches[k].index < matches[k + 1].index

\* C7: the records match_list and IncrementalMatcher.match_list return are
\* ordered by descending score, ties by ascending index, when config.sort is
\* true, and by ascending index when it is false, on every path of the
\* incremental matcher.
C7_ResultInOrder ==
  (op \in {"match_list", "inc_match_list"} /\ ~cur_result.panic) =>
    InOrder(cur_config, cur_result.matches)

C7_Witness ==
  /\ op = "inc_match_list" /\ taken = "NarrowGrow" /\ cur_config.sort /\ ~cur_result.panic
  /\ \E j, k \in 1..Len(cur_result.matches) :
       /\ j < k /\ cur_result.matches[j].score = cur_result.matches[k].score
  /\ \E j, k \in 1..Len(cur_result.matches) :
       cur_result.matches[j].score > cur_result.matches[k].score

\* the typos of the traceback from the first last-row cell that holds the
\* maximum: its Up and Mismatch steps and the needle rows left when it stops
\* at the left edge or at a zero score
TracebackTypos(needle, h, scoring) ==
  LET m == score_matrix(needle, h, scoring)
      score == score_of_matrix(m, Len(needle))
      col == get_col_idx(m, Len(needle), score, 1)
      path == alignment_path_from(m, 0, None,
                AlignmentPathIter_next(m, 0, None,
                                       AlignmentPathIter_new(col[1], Len(needle), score)),
                <<>>)
  IN IF ~IsSome(col) THEN Len(needle) ELSE path.it.typo_count + path.it.row_idx

\* C8: with max_typos Some(T) the engine returns a score for a haystack if
\* and only if the traceback from the first last-row cell that holds the
\* maximum has at most T typos.
C8_ScoreIffTyposWithinBound ==
  (op = "match_haystack" /\ IsSome(cur_config.max_typos)) =>
    ((~cur_result.panic /\ IsSome(cur_result.matches))
       <=> TracebackTypos(cur_needle, cur_haystacks[1], cur_config.scoring)
             <= cur_config.max_typos[1])

Ascending(s) == \A k \in 1..(Len(s) - 1) : s[k] < s[k + 1]
Descending(s) == \A k \in 1..(Len(s) - 1) : s[k] > s[k + 1]

C12_ResetForcesFullRescore ==
  [][/\ op' = "reset" =>
          (prev_needle' = <<>> /\ matched_indices' = <<>> /\ prev_haystack_count' = 0)
     /\ (op = "reset" /\ op' = "inc_match_list" /\ cur_needle' # <<>>) =>
          /\ taken' = "Full"
          /\ ~cur_result'.panic
          /\ cur_result'.matches =
               Matcher_match_list(cur_needle', cur_config', cur_haystacks').matches]_vars

\* reset() was called after a call with the needle "aB", and the call with
\* its extension "aBb" that may come next takes the full-rescore path and
\* finds a match
C12_Witness ==
  /\ op = "reset" /\ cur_needle = <<97, 66>> /\ cur_haystacks # <<>>
  /\ prev_needle = <<>>
  /\ ENABLED (/\ IncMatchList(<<97, 66, 98>>, cur_haystacks)
              /\ taken' = "Full" /\ cur_result'.matches # <<>>)

\* a step that is a call of one of the three entry points of the
\* IncrementalMatcher
IncCallStep ==
  /\ par_mode = "idle"
  /\ op' \in {"inc_match_list", "inc_match_list_indices", "inc_match_list_parallel", "running"}

\* C13: a call with fewer haystacks than the previous call does a full
\* rescore over the new list even when the needle extends prev_needle, and
\* reads no haystack at a retained index beyond the new list (such a read
\* panics); for match_list, match_list_indices and match_list_parallel
C13_ShorterListIsRescored ==
  [][/\ (IncCallStep /\ cur_needle' # <<>> /\ Len(cur_haystacks') < prev_haystack_count) =>
          /\ taken' = "Full"
          /\ ~cur_result'.panic
          /\ op' = "running" => par_mode' = "full"
          /\ op' = "inc_match_list" =>
               cur_result'.matches =
                 Matcher_match_list(cur_needle', cur_config', cur_haystacks').matches
          /\ op' = "inc_match_list_indices" =>
               cur_result'.matches =
                 Matcher_match_list_indices(cur_needle', cur_config', cur_haystacks').matches
     /\ par_mode' = "full" => ~cur_result'.panic]_vars

\* the matcher retains the last index of its list for the needle "a", and
\* the call that may come next has the extension "aB" and the list without
\* its last haystack: it takes the full-rescore path
C13_Witness ==
  /\ par_mode = "idle" /\ ~cur_result.panic
  /\ prev_needle = <<97>> /\ Len(cur_haystacks) = prev_haystack_count
  /\ \E k \in 1..Len(matched_indices) : matched_indices[k] = Len(cur_haystacks) - 1
  /\ ENABLED (/\ IncMatchListIndices(<<97, 66>>, SubSeq(cur_haystacks, 1, Len(cur_haystacks) - 1))
              /\ taken' = "Full" /\ cur_result'.matches # <<>>)

\* the indices of idxs whose haystack the matcher accepts, in the order of idxs
Accepted(needle, config, hs, idxs) ==
  SelectSeq(idxs, LAMBDA i : IsSome(match_one(needle, config, hs[i + 1], i).out))

\* C14: when the needle extends prev_needle and the list has grown, the call
\* re-scores the retained indices and every haystack of the tail, reports the
\* tail records with their absolute indices, appends the tail's matching
\* indices to matched_indices after the narrowed survivors, and returns the
\* one-shot result for the grown list
C14_GrowthEqualsOneShot ==
  [][(/\ op' = "inc_match_list"
      /\ is_prefix_extension(Self, cur_needle')
      /\ Len(cur_haystacks') > prev_haystack_count
      /\ SubSeq(cur_haystacks', 1, prev_haystack_count) = cur_haystacks) =>
       /\ taken' = "NarrowGrow"
       /\ ~cur_result'.panic
       /\ matched_indices' =
            Accepted(cur_needle', cur_config, cur_haystacks', matched_indices)
            \o Accepted(cur_needle', cur_config, cur_haystacks',
                        [k \in 1..(Len(cur_haystacks') - prev_haystack_count) |->
                           prev_haystack_count + k - 1])
       /\ \A j \in prev_haystack_count..(Len(cur_haystacks') - 1) :
            IsSome(match_one(cur_needle', cur_config, cur_haystacks'[j + 1], j).out) =>
              \E k \in 1..Len(cur_result'.matches) :
                cur_result'.matches[k] =
                  match_one(cur_needle', cur_config, cur_haystacks'[j + 1], j).out[1]
       /\ cur_result'.matches =
            Matcher_match_list(cur_needle', cur_config, cur_haystacks').matches]_vars

max_per_char_score(scoring) ==
  scoring.match_score + scoring.capitalization_bonus \div 2
    + scoring.delimiter_bonus \div 2 + scoring.matching_case_bonus
max_needle_len(scoring) ==
  ((U16 - 1) - scoring.prefix_bonus - scoring.exact_match_bonus) \div max_per_char_score(scoring)

\* C16: Matcher::new, set_needle and set_config panic exactly when the needle
\* they leave is longer than floor((65535 - prefix_bonus - exact_match_bonus)
\* / (match_score + capitalization_bonus/2 + delimiter_bonus/2 +
\* matching_case_bonus)) for the scoring they leave, and match_list never
\* scores a haystack with a needle above that bound
C16_GuardRefusesLongNeedles ==
  max_per_char_score(cur_config.scoring) > 0 =>
    /\ op \in {"new", "set_needle", "set_config"} =>
         (cur_result.panic <=> Len(cur_needle) > max_needle_len(cur_config.scoring))
    /\ (op = "match_list" /\ cur_needle # <<>>) =>
         Len(cur_needle) <= max_needle_len(cur_config.scoring)

\* a u16 addition of the inner loop of score_haystack goes past u16::MAX in
\* row row_idx of chunk col_idx of the matrix m
row_wraps(m, needle, h, scoring, col_idx, row_idx) ==
  LET chunk == haystack_chunk(h, col_idx - 1)
      prev == IF row_idx = 1 THEN ZeroVec ELSE m[col_idx][row_idx - 1].scores
      left_prev == IF row_idx = 1 \/ col_idx = 1 THEN ZeroVec
                   ELSE m[col_idx - 1][row_idx - 1].scores
      diag == shift_right_padded(prev, left_prev, 1)
      wraps(bonuses) ==
        \E j \in Lanes :
          LET is_match == chunk[j + 1] = needle[row_idx]
                          \/ chunk[j + 1] = flip_case(needle[row_idx])
              sum == diag[j + 1] + (IF is_match THEN bonuses[j + 1] ELSE 0)
              case_bonus == IF chunk[j + 1] = needle[row_idx]
                            THEN scoring.matching_case_bonus ELSE 0
          IN \/ sum >= U16
             \/ subs_u16(sum % U16, scoring.mismatch_penalty) + case_bonus >= U16
  IN wraps(match_and_masked_bonuses(h, col_idx - 1, scoring))

engine_wraps(needle, h, scoring) ==
  LET some_row(m) ==
        \E col_idx \in 1..Len(m), row_idx \in 1..Len(needle) :
          row_wraps(m, needle, h, scoring, col_idx, row_idx)
  IN some_row(score_matrix(needle, h, scoring))

\* C17: a needle that passed the guard is scored without any u16 addition
\* going past 65535, in the cells of the matrix and in the exact-bonus step
C17_NoScoreWraps ==
  (op = "match_list" /\ cur_needle # <<>>) =>
    \A i \in 1..Len(cur_haystacks) :
      /\ ~engine_wraps(cur_needle, cur_haystacks[i], cur_config.scoring)
      /\ ~exact_bonus_overflows(cur_needle, cur_config, cur_haystacks[i])

\* the 16-byte chunks of a haystack, numbered from 0: chunk k holds the bytes
\* from 16k on, the last chunk is moved back to end with the haystack, and a
\* haystack of fewer than 16 bytes is one chunk
haystack_chunks(h) == 0..(DivCeil(Len(h), LANES) - 1)
chunk_of(h, k) ==
  IF Len(h) <= LANES THEN Bytes(h, 1, Len(h))
  ELSE Bytes(h, Min2(k * LANES, Len(h) - LANES) + 1, Min2(k * LANES, Len(h) - LANES) + LANES)
chunks_with(h, c) == {k \in haystack_chunks(h) : chunk_has(chunk_of(h, k), c)}
least(s) == CHOOSE k \in s : \A d \in s : k <= d

\* every needle byte has a chunk that holds it, and the chunks do not go back
consumable(needle, h) ==
  \E f \in [1..Len(needle) -> haystack_chunks(h)] :
    /\ \A i \in 1..(Len(needle) - 1) : f[i] <= f[i + 1]
    /\ \A i \in 1..Len(needle) : f[i] \in chunks_with(h, needle[i])

\* C18: with max_typos = 0 the prefilter returns true exactly when the needle
\* bytes can be consumed in needle order, in either case, each in the chunk of
\* the previous one or in a later chunk, for haystacks of every length
C18_PrefilterIffConsumable ==
  (op \in {"prefilter_avx2", "prefilter_sse"} /\ cur_config.max_typos[1] = 0) =>
    (cur_result.matches[1].matched <=> consumable(cur_needle, cur_haystacks[1]))

\* the needle bytes from the ni-th on that the chunk scan does not find, the
\* scan standing at chunk k; after a byte it did not find it starts again at
\* chunk 0
RECURSIVE unfound(_, _, _, _)
unfound(needle, h, ni, k) ==
  IF ni > Len(needle) THEN 0
  ELSE LET later == {c \in chunks_with(h, needle[ni]) : c >= k}
       IN IF later = {} THEN 1 + unfound(needle, h, ni + 1, 0)
          ELSE unfound(needle, h, ni + 1, least(later))

\* C19: with max_typos = T >= 1 the prefilter returns true exactly when at
\* most T needle bytes are not found by the chunk scan, and the SSE and the
\* AVX2 variant return the same boolean
C19_TyposPrefilterCountsUnfound ==
  (op \in {"prefilter_avx2", "prefilter_sse"} /\ cur_config.max_typos[1] >= 1) =>
    /\ cur_result.matches[1].matched
         <=> unfound(cur_needle, cur_haystacks[1], 1, 0) <= cur_config.max_typos[1]
    /\ cur_result.matches[1].matched =
         prefilter_match_haystack_typos(cur_needle, cur_haystacks[1],
                                        cur_config.max_typos[1]).matched
    /\ cur_result.matches[1].matched =
         sse_match_haystack_typos(cur_needle, cur_haystacks[1],
                                  cur_config.max_typos[1]).matched

\* C20: when the max_typos = 0 prefilter returns (true, k), k is the first
\* chunk that holds the first needle byte, whatever the needle's length
C20_SkippedChunksIsFirstChunk ==
  (/\ op \in {"prefilter_avx2", "prefilter_sse"} /\ cur_config.max_typos[1] = 0
   /\ cur_result.matches[1].matched
   /\ chunks_with(cur_haystacks[1], cur_needle[1]) # {}) =>
    cur_result.matches[1].skipped_chunks = least(chunks_with(cur_haystacks[1], cur_needle[1]))

\* C22: matched_indices is strictly ascending after every step; a narrowing
\* call keeps survivors of the old matched_indices in their order and appends
\* only indices of the grown tail, all of them behind every survivor
C22_MatchedIndicesAscending ==
  [][/\ Ascending(matched_indices')
     /\ (taken' \in {"Narrow", "NarrowGrow"} /\ matched_indices' # matched_indices) =>
          /\ \A k \in 1..Len(matched_indices') :
               \/ matched_indices'[k] \in Elements(matched_indices)
               \/ matched_indices'[k] >= prev_haystack_count
          /\ \A j, k \in 1..Len(matched_indices') :
               (j < k /\ matched_indices'[j] >= prev_haystack_count)
                 => matched_indices'[k] >= prev_haystack_count]_vars

\* a sorted result whose order is not the order of the indices, after a call
\* that kept a survivor and appended a tail index
C22_Witness ==
  /\ op = "inc_match_list" /\ taken = "NarrowGrow" /\ cur_config.sort
  /\ Len(matched_indices) >= 2
  /\ matched_indices[Len(matched_indices)] = Len(cur_haystacks) - 1
  /\ indices_of(cur_result.matches) # matched_indices

\* C30: after every match_list call, whichever case it took, prev_needle is
\* the needle passed and prev_haystack_count the number of haystacks passed
C30_PrevIsLastCall ==
  op = "inc_match_list" =>
    /\ ~cur_result.panic
    /\ taken \in {"Empty", "Narrow", "NarrowGrow", "Full"}
    /\ prev_needle = cur_needle
    /\ prev_haystack_count = Len(cur_haystacks)

C30_Witness ==
  /\ op = "inc_match_list" /\ taken = "NarrowGrow"
  /\ prev_needle = <<97, 66, 98>> /\ prev_haystack_count = MaxHaystacks
  /\ matched_indices # <<>>

\* a MatchIndices record without its indices
without_indices(matches) ==
  [k \in 1..Len(matches) |->
     [index |-> matches[k].index, score |-> matches[k].score, exact |-> matches[k].exact]]

C27_TyposAtLeastNeedleLength ==
  (/\ op = "match_list" /\ cur_needle # <<>> /\ IsSome(cur_config.max_typos)
   /\ cur_config.max_typos[1] >= Len(cur_needle)) =>
    /\ min_haystack_len(cur_needle, cur_config) = 0
    /\ ~cur_result.panic
    /\ \A i \in 1..Len(cur_haystacks) :
         cur_haystacks[i] = cur_needle =>
           \E k \in 1..Len(cur_result.matches) :
             cur_result.matches[k].index = i - 1 /\ cur_result.matches[k].exact

\* the engine's outcome on the whole haystack, as a list of one-shot records
whole_haystack_matches(needle, config, h) ==
  LET as_list(r) ==
        [panic |-> r.panic,
         matches |-> IF IsSome(r.out)
                     THEN <<[index |-> 0, score |-> r.out[1], exact |-> FALSE]>>
                     ELSE <<>>]
  IN as_list(match_haystack(needle, h, config.max_typos, config.scoring))

\* C21: with max_typos = Some(T), a haystack the prefilter passes with k
\* skipped chunks gets, scored from byte 16k on, the verdict and the score the
\* engine gives the whole haystack
C21_TrimmedScoresAsWhole ==
  (op = "match_list" /\ IsSome(cur_config.max_typos)
     /\ IsSome(prefilter_one(cur_needle, cur_config, cur_haystacks[1])))
    => cur_result = whole_haystack_matches(cur_needle, cur_config, cur_haystacks[1])

\* the configuration with prefix_bonus set to zero
without_prefix_bonus(config) == [config EXCEPT !.scoring.prefix_bonus = 0]

\* the first needle byte matches byte 0 of the haystack, in either case
first_byte_matches(needle, h) ==
  h # <<>> /\ (h[1] = needle[1] \/ h[1] = flip_case(needle[1]))

\* C28: prefix_bonus enters the scores only through the cell of needle byte 1
\* and haystack byte 0: that cell holds match_score + prefix_bonus (plus the
\* matching-case bonus) when the bytes match, and when they do not match the
\* call returns what it returns with prefix_bonus = 0, whether a later needle
\* byte matches byte 0 or the scored slice starts after skipped chunks
C28_PrefixBonusOnlyAtOrigin ==
  (op = "match_list" /\ cur_needle # <<>>) =>
    LET h == cur_haystacks[1]
        scoring == cur_config.scoring
    IN IF first_byte_matches(cur_needle, h)
       THEN score_matrix(cur_needle, h, scoring)[1][1].scores[1]
              = scoring.match_score + scoring.prefix_bonus
                + (IF h[1] = cur_needle[1] THEN scoring.matching_case_bonus ELSE 0)
       ELSE cur_result
              = Matcher_match_list(cur_needle, without_prefix_bonus(cur_config), cur_haystacks)

greatest(s) == CHOOSE k \in s : \A d \in s : k >= d

\* the affine cost of a left gap of length dist: gap_open + (dist - 1) *
\* gap_extend after a matched cell, dist * gap_extend otherwise
left_gap_cost(dist, after_match, scoring) ==
  dist * scoring.gap_extend_penalty
    + (IF after_match THEN scoring.gap_open_penalty - scoring.gap_extend_penalty ELSE 0)

\* the sources within the chunk of lane j of a row: the lanes s <= j of the
\* row before the gaps
chunk_sources(current, match_mask, scoring, j) ==
  {subs_u16(current[s + 1], left_gap_cost(j - s, match_mask[s + 1], scoring)) : s \in 0..(j - 1)}
    \cup {current[j + 1]}

\* the sources carried in from the chunk to the left, lane s of which is
\* LANES + j - s cells away
carried_sources(left, scoring, j) ==
  {subs_u16(left.scores[s + 1], left_gap_cost(LANES + j - s, left.mask[s + 1], scoring)) : s \in Lanes}

\* row row_idx of chunk col_idx of the matrix m holds in every lane the
\* maximum over its sources
row_is_left_maximum(m, needle, h, scoring, col_idx, row_idx) ==
  LET chunk == haystack_chunk(h, col_idx - 1)
      prev == IF row_idx = 1 THEN ZeroRow ELSE m[col_idx][row_idx - 1]
      left_prev == IF row_idx = 1 \/ col_idx = 1 THEN ZeroRow ELSE m[col_idx - 1][row_idx - 1]
      left == IF col_idx = 1 THEN ZeroRow ELSE m[col_idx - 1][row_idx]
      holds(current) ==
        \A j \in Lanes :
          m[col_idx][row_idx].scores[j + 1]
            = greatest(chunk_sources(current, m[col_idx][row_idx].mask, scoring, j)
                         \cup carried_sources(left, scoring, j))
  IN holds(diag_max_up(needle[row_idx], chunk,
                       match_and_masked_bonuses(h, col_idx - 1, scoring),
                       prev, left_prev, scoring))

\* C24: after the four shift-and-decay steps every lane of every row chunk
\* holds the maximum, over the lanes to its left in the chunk and the lanes
\* carried in from the chunk to the left, of the source score minus the
\* affine cost of the left gap between them
C24_GapsGiveLeftMaximum ==
  op = "match_haystack" =>
    LET every_row(m) ==
          \A col_idx \in 1..Len(m), row_idx \in 1..Len(cur_needle) :
            row_is_left_maximum(m, cur_needle, cur_haystacks[1], cur_config.scoring,
                                col_idx, row_idx)
    IN every_row(score_matrix(cur_needle, cur_haystacks[1], cur_config.scoring))

\* C23: the vector of each matrix has (n + 1) * 33 elements, and the elements
\* a call zeroes, stores and reads for a haystack of at most 512 bytes are
\* elements of the vector
C23_MatricesStayInsideAllocation ==
  op = "match_haystack" =>
    /\ matrices.len = (Len(cur_needle) + 1) * 33
    /\ \A e \in zeroed_elements(matrices) \cup stored_elements(matrices)
                  \cup border_elements(matrices) : e < matrices.len

worker_records == UNION {Elements(local_matches[t]) : t \in 1..Len(local_matches)}

\* C26: while the workers of a parallel call run, the claims made so far have
\* handed out the chunks 0, 1, ... once each: the workers' vectors hold,
\* without a record missing or doubled, the records of a serial scan of the
\* haystacks (or retained indices) of those chunks; and the workers that have
\* ended are as many as the claims that got a number >= num_chunks
C26_EveryChunkClaimedOnce ==
  (par_mode # "idle" /\ ~cur_result.panic) =>
    LET count == IF par_mode = "narrow" THEN Len(matched_indices) ELSE Len(cur_haystacks)
        upto == Min2(Min2(next_chunk, num_chunks(count)) * chunk_size, count)
        scanned_once(r) ==
          /\ ~r.panic
          /\ total_len(local_matches, 1) = Len(r.matches)
          /\ worker_records = Elements(r.matches)
          /\ Cardinality(Elements(r.matches)) = Len(r.matches)
    IN /\ Cardinality({t \in 1..Len(pc) : pc[t] = "done"})
            = Max2(0, next_chunk - num_chunks(count))
       /\ scanned_once(IF par_mode = "narrow"
                       THEN push_all(rescore_retained(cur_needle, cur_config, cur_haystacks,
                                                      SubSeq(matched_indices, 1, upto)), <<>>)
                       ELSE match_list_into(cur_needle, cur_config,
                                            SubSeq(cur_haystacks, 1, upto), 0, <<>>))

C26_Witness ==
  /\ par_mode # "idle" /\ Len(pc) = 2 /\ pc[1] = "done" /\ pc[2] = "done"
  /\ next_chunk = 4 /\ local_matches[1] # <<>> /\ local_matches[2] # <<>>
====
